---- MODULE Spec2Model ----
(***************************************************************************)
(* Model of the pet lifecycle engine of omnimon (src/core/game_pet.py).    *)
(*                                                                         *)
(* The pet is one record, `pet`, holding the attributes of a GamePet that  *)
(* the simulation reads; the shared collections (roster, mess queue,       *)
(* traited-egg list, unlock registry) are the record `game`.  Every method *)
(* of GamePet is an operator from a state [pet, game] to the state after   *)
(* the call, so a handler that calls other methods is the composition of   *)
(* their operators.  Random draws and wall-clock readings are inputs of    *)
(* the actions.  Sprites, screen position and weight are not modelled: no  *)
(* guard of the engine reads them.                                         *)
(***************************************************************************)
EXTENDS Integers, Sequences, FiniteSets, TLC

VARIABLES pet, game, ops, raised, window, menu

vars == <<pet, game, ops, raised, window, menu>>

(***************************************************************************)
(* Time scale.  FRAME_RATE is core.constants.FRAME_RATE (ticks per         *)
(* second).  MinuteSeconds stands for the literal 60 of the code (seconds  *)
(* per minute), scaled down so that several minute ticks fit in a run.     *)
(***************************************************************************)
FRAME_RATE == 3

MinuteSeconds == 1

MinuteTicks == FRAME_RATE * MinuteSeconds

\* update(): the dead-removal delay
DEAD_REMOVE_TICKS == 9000

\* check_death_conditions(): the countdown the button mechanic arms
B_PRESS_COUNTDOWN == 100

\* check_death_conditions(): the countdown the shake mechanic arms
SHAKE_COUNTDOWN == 50

\* update_evolution(): shakes needed for a shaken egg
SHAKEN_EGG_COUNT == 99

(***************************************************************************)
(* Bounds of the exploration.                                              *)
(***************************************************************************)
\* minutes of life simulated per form
MaxMinutes == 2

\* calls of the action entry points (feeding, battle, training, ...) per run,
\* in the whole engine and in the specifications of one subsystem
MaxOps == 1

MaxCareOps == 2

MaxBattleOps == 2

MaxEvoOps == 2

MaxTrainOps == 3

\* the largest protein_overdose and disturbance_penalty a battle is entered with
MaxOverdose == 3

MaxPenalty == 4

\* the largest xp one call of add_experience is given, and the calls per run
MaxXp == 7

MaxXpOps == 4

\* ticks of life simulated where the timed reset of the animation is followed:
\* two animations of 4 * FRAME_RATE + 1 ticks and the mess that follows them
MaxAnimTicks == 32

(***************************************************************************)
(* Helpers                                                                 *)
(***************************************************************************)
Min(a, b) == IF a <= b THEN a ELSE b

Max(a, b) == IF a >= b THEN a ELSE b

in_range(val, r) == r[1] <= val /\ val <= r[2]

States == {"idle", "moving", "nap", "tired", "eat", "happy", "happy1", "happy2",
           "happy3", "angry", "sick", "nope", "pooping", "hatch", "dead"}

\* wall clock, as far as should_sleep() and check_wake_up() tell it apart:
\* "night" is inside the sleep window, "wake" is the wake-up minute
Clock == {"day", "night", "wake"}

(***************************************************************************)
(* Module configuration: get_module(module_id).  The attributes are those  *)
(* the engine reads; the numeric thresholds are small so that every        *)
(* threshold is crossed within a few simulated minutes.  Chances are in    *)
(* percent, as the configuration gives them.                               *)
(***************************************************************************)
Rulesets == {"dmc", "penc", "dmx"}

get_module(rs, bp, sh) ==
  [ name                        |-> rs,
    ruleset                     |-> rs,
    use_condition_hearts        |-> (rs = "penc"),
    death_max_injuries          |-> 2,
    death_sick_timer            |-> 2,
    death_hunger_timer          |-> 2,
    death_strength_timer        |-> 2,
    death_stage45_mistake       |-> 1,
    death_stage67_mistake       |-> 1,
    death_starvation_count      |-> IF rs = "dmx" THEN 0 ELSE 2,
    death_care_mistake          |-> 2,
    death_save_by_b_press       |-> bp,
    death_save_by_shake         |-> sh,
    meat_care_mistake_time      |-> 1,
    protein_care_mistake_time   |-> 2,
    sleep_care_mistake_timer    |-> 2,
    overfeed_timer              |-> 2,
    can_eat_sleeping            |-> (rs = "dmx"),
    protein_dp_gain             |-> 1,
    battle_base_sick_chance_win |-> CASE rs = "dmc" -> 0 [] rs = "penc" -> 10 [] OTHER -> 60,
    battle_base_sick_chance_lose|-> CASE rs = "dmc" -> 35 [] rs = "penc" -> 45 [] OTHER -> 0,
    protein_overdose_max        |-> 1,
    disturbance_penalty_max     |-> 1,
    training_effort_gain        |-> 4,
    training_strengh_gain       |-> 1,
    back_to_sleep_time          |-> IF rs = "penc" THEN 2 ELSE 1,
    enable_shaken_egg           |-> (rs = "penc"),
    traited_egg_starting_level  |-> 2,
    unlocks                     |-> << [type |-> "evolution", name |-> "u_mega", to |-> {"Mega"}] >> ]

(***************************************************************************)
(* Species data: module.get_monster(name, version).  "none" stands for a   *)
(* name the module does not know.  An evolution path is a record whose     *)
(* fields are the keys present in the path's dictionary.                   *)
(***************************************************************************)
NoMonster == [name |-> "none"]

MonsterNames == {"Egg", "Rookie", "ChampA", "ChampB", "ChampC", "Secret", "Mega", "Elder"}

RookieEvolve(hearts) ==
  << [to |-> "Mega", jogress |-> "Partner"],
     [to |-> "Mega", item |-> "Crest"],
     IF hearts THEN [to |-> "ChampA", condition_hearts |-> <<3, 4>>, training |-> <<1, 4>>]
               ELSE [to |-> "ChampA", mistakes |-> <<0, 0>>, training |-> <<1, 4>>],
     IF hearts THEN [to |-> "Secret", condition_hearts |-> <<3, 4>>]
               ELSE [to |-> "Secret", mistakes |-> <<0, 0>>],
     [to |-> "ChampB", overfeed |-> <<0, 0>>],
     [to |-> "ChampA"] >>

Monster(hearts, name) ==
  CASE name = "Egg" ->
         [name |-> "Egg", stage |-> 0, version |-> 1, special |-> FALSE, special_key |-> "",
          evolve |-> << [to |-> "Secret"], [to |-> "Rookie"] >>, has_schedule |-> FALSE,
          atk_main |-> 0, time |-> 1, poop_timer |-> 1, stomach |-> 2, hunger_loss |-> 1,
          strength_loss |-> 1, power |-> 0, energy |-> 0, heal_doses |-> 1,
          condition_hearts |-> 0]
    [] name = "Rookie" ->
         [name |-> "Rookie", stage |-> 3, version |-> 1, special |-> FALSE, special_key |-> "",
          evolve |-> RookieEvolve(hearts), has_schedule |-> TRUE,
          atk_main |-> 1, time |-> 1, poop_timer |-> 2, stomach |-> 3, hunger_loss |-> 1,
          strength_loss |-> 2, power |-> 10, energy |-> 2, heal_doses |-> 1,
          condition_hearts |-> 3]
    [] name = "ChampA" ->
         [name |-> "ChampA", stage |-> 4, version |-> 1, special |-> FALSE, special_key |-> "",
          evolve |-> << [to |-> "Mega", battles |-> <<1, 9>>, win_ratio |-> <<50, 100>>] >>,
          has_schedule |-> TRUE,
          atk_main |-> 1, time |-> 1, poop_timer |-> 2, stomach |-> 3, hunger_loss |-> 2,
          strength_loss |-> 2, power |-> 20, energy |-> 1, heal_doses |-> 2,
          condition_hearts |-> 2]
    [] name = "ChampB" ->
         [name |-> "ChampB", stage |-> 4, version |-> 1, special |-> FALSE, special_key |-> "",
          evolve |-> << [to |-> "Unknown"] >>, has_schedule |-> FALSE,
          atk_main |-> 1, time |-> 1, poop_timer |-> 2, stomach |-> 1, hunger_loss |-> 2,
          strength_loss |-> 2, power |-> 20, energy |-> 3, heal_doses |-> 1,
          condition_hearts |-> 2]
    [] name = "ChampC" ->
         [name |-> "ChampC", stage |-> 4, version |-> 1, special |-> FALSE, special_key |-> "",
          evolve |-> << [to |-> "Mega", win_ratio |-> <<50, 100>>] >>, has_schedule |-> FALSE,
          atk_main |-> 1, time |-> 1, poop_timer |-> 2, stomach |-> 3, hunger_loss |-> 2,
          strength_loss |-> 2, power |-> 20, energy |-> 3, heal_doses |-> 1,
          condition_hearts |-> 2]
    [] name = "Secret" ->
         [name |-> "Secret", stage |-> 4, version |-> 1, special |-> TRUE, special_key |-> "k_secret",
          evolve |-> << >>, has_schedule |-> FALSE,
          atk_main |-> 1, time |-> 1, poop_timer |-> 2, stomach |-> 3, hunger_loss |-> 2,
          strength_loss |-> 2, power |-> 30, energy |-> 2, heal_doses |-> 1,
          condition_hearts |-> 2]
    [] name = "Mega" ->
         [name |-> "Mega", stage |-> 6, version |-> 5, special |-> FALSE, special_key |-> "",
          evolve |-> << >>, has_schedule |-> FALSE,
          atk_main |-> 1, time |-> 1, poop_timer |-> 2, stomach |-> 3, hunger_loss |-> 2,
          strength_loss |-> 2, power |-> 40, energy |-> 2, heal_doses |-> 1,
          condition_hearts |-> 1]
    [] name = "Elder" ->
         [name |-> "Elder", stage |-> 6, version |-> 1, special |-> FALSE, special_key |-> "",
          evolve |-> << >>, has_schedule |-> FALSE,
          atk_main |-> 1, time |-> 1, poop_timer |-> 10, stomach |-> 3, hunger_loss |-> 9,
          strength_loss |-> 9, power |-> 40, energy |-> 2, heal_doses |-> 1,
          condition_hearts |-> 1]
    [] OTHER -> NoMonster

get_monster(module, name) == Monster(module.use_condition_hearts, name)

(***************************************************************************)
(* GamePet: construction, set_data, reset_variables, set_state             *)
(***************************************************************************)
\* should_sleep(): the schedule calls for sleep (no schedule: never)
should_sleep(p, clk) == p.has_schedule /\ clk = "night"

set_data(p, data) ==
  [p EXCEPT !.name = data.name, !.stage = data.stage, !.version = data.version,
            !.evolve = data.evolve, !.has_schedule = data.has_schedule,
            !.atk_main = data.atk_main, !.time = data.time,
            !.poop_timer = data.poop_timer, !.stomach = data.stomach,
            !.hunger_loss = data.hunger_loss, !.strength_loss = data.strength_loss,
            !.power = data.power, !.energy = data.energy,
            !.heal_doses = data.heal_doses,
            !.condition_hearts_max = data.condition_hearts]

\* reset_variables without line 87 (sick = 0)
reset_variables_keeping_sick(p) ==
  [p EXCEPT !.timer = 0, !.dp = p.energy, !.effort = 0,
            !.level = IF p.traited THEN p.module.traited_egg_starting_level ELSE 1,
            !.experience = 0, !.win = 0, !.battles = 0,
            !.animation_counter = 0,
            !.care_food_mistake_timer = 0, !.care_strength_mistake_timer = 0,
            !.care_sleep_mistake_timer = 0, !.care_sick_mistake_timer = 0,
            !.enemy_kills = [i \in 0..10 |-> 0],
            !.starvation_counter = 0, !.disturbance_penalty = 0,
            !.overfeed_timer = 0, !.protein_overdose = 0,
            !.shake_counter = 0, !.death_save_counter = 0,
            !.overfeed = 0, !.sleep_disturbances = 0,
            !.use_condition_hearts = p.module.use_condition_hearts,
            !.condition_hearts = IF p.module.use_condition_hearts
                                   THEN p.condition_hearts_max ELSE p.condition_hearts,
            !.mistakes = 0]

reset_variables(p) ==
  [p EXCEPT !.timer = 0, !.dp = p.energy, !.effort = 0, !.sick = 0,
            !.level = IF p.traited THEN p.module.traited_egg_starting_level ELSE 1,
            !.experience = 0, !.win = 0, !.battles = 0,
            !.animation_counter = 0,
            !.care_food_mistake_timer = 0, !.care_strength_mistake_timer = 0,
            !.care_sleep_mistake_timer = 0, !.care_sick_mistake_timer = 0,
            !.enemy_kills = [i \in 0..10 |-> 0],
            !.starvation_counter = 0, !.disturbance_penalty = 0,
            !.overfeed_timer = 0, !.protein_overdose = 0,
            !.shake_counter = 0, !.death_save_counter = 0,
            !.overfeed = 0, !.sleep_disturbances = 0,
            !.use_condition_hearts = p.module.use_condition_hearts,
            !.condition_hearts = IF p.module.use_condition_hearts
                                   THEN p.condition_hearts_max ELSE p.condition_hearts,
            !.mistakes = 0]

set_back_to_sleep(p) == [p EXCEPT !.back_to_sleep = p.module.back_to_sleep_time]

\* set_state with line 151-152 removed: a dead pet is given the new state
set_state_unguarded(p, new_state, force, clk) ==
  IF p.state # new_state \/ force
    THEN [p EXCEPT !.state = new_state, !.animation_counter = 0]
    ELSE p

\* set_state(new_state, force): the test for an interrupted nap reads self.state
\* after it has been assigned new_state
set_state(p, new_state, force, clk) ==
  IF p.state = "dead" THEN p
  ELSE IF p.state # new_state \/ force
    THEN LET p1 == [p EXCEPT !.state = new_state, !.animation_counter = 0]
             p2 == IF p1.state = "nap" /\ should_sleep(p1, clk) /\ new_state # "nap"
                     THEN set_back_to_sleep(p1) ELSE p1
         IN p2
    ELSE p

\* the attributes __init__ sets before set_data and reset_variables run
BlankPet(module, traited) ==
  [ module |-> module, traited |-> traited, shook |-> FALSE,
    hunger |-> 0, strength |-> 0, age |-> 0, injuries |-> 0, poop_count_flag |-> 0,
    name |-> "", stage |-> 0, version |-> 0, evolve |-> << >>, has_schedule |-> FALSE,
    atk_main |-> 0, time |-> 0, poop_timer |-> 0, stomach |-> 0, hunger_loss |-> 0,
    strength_loss |-> 0, power |-> 0, energy |-> 0, heal_doses |-> 0,
    condition_hearts_max |-> 0,
    timer |-> 0, age_timer |-> 0, dp |-> 0, effort |-> 0, sick |-> 0, level |-> 1,
    experience |-> 0, win |-> 0, battles |-> 0, animation_counter |-> 0,
    care_food_mistake_timer |-> 0, care_strength_mistake_timer |-> 0,
    care_sleep_mistake_timer |-> 0, care_sick_mistake_timer |-> 0,
    enemy_kills |-> [i \in 0..10 |-> 0],
    starvation_counter |-> 0, disturbance_penalty |-> 0, overfeed_timer |-> 0,
    protein_overdose |-> 0, shake_counter |-> 0, death_save_counter |-> 0,
    overfeed |-> 0, sleep_disturbances |-> 0,
    use_condition_hearts |-> FALSE, condition_hearts |-> 0, mistakes |-> 0,
    state |-> "", back_to_sleep |-> 0, has_area |-> FALSE, area |-> 0 ]

\* GamePet.__init__(pet_data, traited)
NewPet(module, name, traited, clk) ==
  LET p1 == reset_variables(set_data(BlankPet(module, traited), get_monster(module, name)))
      p2 == set_state(p1, "idle", FALSE, clk)
  IN [p2 EXCEPT !.age_timer = 0, !.injuries = 0, !.back_to_sleep = 0,
                !.level = 1, !.experience = 0]

(***************************************************************************)
(* The methods below map a state s = [pet, game, exc] to the state after   *)
(* the call.  exc is TRUE once a Python exception has been raised and not  *)
(* caught: the caller then skips the rest of its body.                     *)
(***************************************************************************)
WithPet(s, p) == [s EXCEPT !.pet = p]

\* need_care without the hunger test of line 609
need_care_ignoring_hunger(p, clk) ==
  /\ p.stage # 0
  /\ p.state \notin {"dead", "nap"}
  /\ (p.strength = 0 \/ p.sick > 0 \/ should_sleep(p, clk))

need_care(p, clk) ==
  /\ p.stage # 0
  /\ p.state \notin {"dead", "nap"}
  /\ (p.hunger = 0 \/ p.strength = 0 \/ p.sick > 0 \/ should_sleep(p, clk))

\* animation_counter grows without bound in the code.  It is kept saturated at
\* the largest value a comparison of the engine can tell apart in the pet's
\* state: 4 * FRAME_RATE + 1 where the timed reset reads it, 1 in the states
\* (idle, moving, nap, dead) where nothing reads it before set_state resets it
AnimCap(state) == IF state \in {"moving", "idle", "nap", "dead"} THEN 1 ELSE 4 * FRAME_RATE + 1

\* the egg's hatch animation starts when timer * FRAME_RATE / 30 >= 1750
HATCH_TICKS == 1750

\* update_animation without the timed reset of lines 315-317
update_animation_without_reset(p, clk) ==
  LET p1 == [p EXCEPT !.animation_counter = Min(AnimCap(p.state), p.animation_counter + 1)]
  IN IF p1.stage = 0 /\ p1.timer * FRAME_RATE >= HATCH_TICKS * 30
       THEN set_state(p1, "hatch", FALSE, clk) ELSE p1

update_animation(p, clk) ==
  LET p1 == [p EXCEPT !.animation_counter = Min(AnimCap(p.state), p.animation_counter + 1)]
      p2 == IF p1.state \notin {"moving", "idle", "nap", "dead"}
               /\ p1.animation_counter > 4 * FRAME_RATE
              THEN set_state(p1, IF p1.state = "eat" THEN "happy" ELSE "idle", FALSE, clk)
              ELSE p1
  IN IF p2.stage = 0 /\ p2.timer * FRAME_RATE >= HATCH_TICKS * 30
       THEN set_state(p2, "hatch", FALSE, clk) ELSE p2

\* update_idle_movement(): mv is what move_timer and the random draws decide:
\* "wait" (timer not expired), "emote", "moving" or "idle"
Moves == {"wait", "emote", "moving", "idle"}

update_idle_movement(p, mv, clk) ==
  IF p.stage = 0 \/ p.state = "nap" THEN p
  ELSE IF mv = "emote" /\ p.state = "idle"
    THEN set_state(p, IF p.sick > 0 THEN "sick"
                      ELSE IF ~need_care(p, clk) THEN "happy" ELSE "angry", FALSE, clk)
  ELSE IF mv = "moving" THEN set_state(p, "moving", FALSE, clk)
  ELSE IF mv = "idle" THEN set_state(p, "idle", FALSE, clk)
  ELSE p

\* check_wake_up(): long is "slept at least SLEEP_RECOVERY_HOURS"
check_wake_up(p, clk, long) ==
  IF p.has_schedule /\ clk = "wake"
    THEN set_state(IF long THEN [p EXCEPT !.dp = p.energy] ELSE p, "idle", FALSE, clk)
    ELSE p

poop(s, clk) ==
  [s EXCEPT !.game.poop_list = s.game.poop_list + 1,
            !.pet = set_state(s.pet, "idle", FALSE, clk)]

set_sick(p, clk) ==
  set_state([p EXCEPT !.sick = p.heal_doses, !.injuries = p.injuries + 1,
                      !.death_save_counter = 0], "sick", FALSE, clk)

(***************************************************************************)
(* Evolution                                                               *)
(***************************************************************************)
Has(evo, key) == key \in DOMAIN evo

StageKey(k) == CASE k = 5 -> "stage-5" [] k = 6 -> "stage-6" [] k = 7 -> "stage-7"
                   [] k = 8 -> "stage-8" [] OTHER -> "stage-9"

\* the skip condition with the mistakes range of line 490 left out
path_blocked_any_mistakes(p, evo) ==
  \/ Has(evo, "jogress") \/ Has(evo, "item")
  \/ (Has(evo, "condition_hearts") /\ ~in_range(p.condition_hearts, evo.condition_hearts))
  \/ (Has(evo, "training") /\ ~in_range(p.effort \div 4, evo.training))
  \/ (Has(evo, "overfeed") /\ ~in_range(p.overfeed, evo.overfeed))
  \/ (Has(evo, "level") /\ ~in_range(p.level, evo.level))
  \/ (\E k \in 5..9 : Has(evo, StageKey(k)) /\ ~in_range(p.enemy_kills[k], evo[StageKey(k)]))
  \/ (Has(evo, "sleep_disturbances") /\ ~in_range(p.sleep_disturbances, evo.sleep_disturbances))
  \/ (Has(evo, "battles") /\ ~in_range(p.battles, evo.battles))
  \/ (Has(evo, "win_ratio") /\ p.battles # 0
        /\ ~in_range((p.win * 100) \div p.battles, evo.win_ratio))

\* the skip condition with the win ratio of line 504 taken as 0 for a pet
\* that has not fought
path_blocked_ratio_always(p, evo) ==
  \/ Has(evo, "jogress") \/ Has(evo, "item")
  \/ (Has(evo, "mistakes") /\ ~in_range(p.mistakes, evo.mistakes))
  \/ (Has(evo, "condition_hearts") /\ ~in_range(p.condition_hearts, evo.condition_hearts))
  \/ (Has(evo, "training") /\ ~in_range(p.effort \div 4, evo.training))
  \/ (Has(evo, "overfeed") /\ ~in_range(p.overfeed, evo.overfeed))
  \/ (Has(evo, "level") /\ ~in_range(p.level, evo.level))
  \/ (\E k \in 5..9 : Has(evo, StageKey(k)) /\ ~in_range(p.enemy_kills[k], evo[StageKey(k)]))
  \/ (Has(evo, "sleep_disturbances") /\ ~in_range(p.sleep_disturbances, evo.sleep_disturbances))
  \/ (Has(evo, "battles") /\ ~in_range(p.battles, evo.battles))
  \/ (Has(evo, "win_ratio")
        /\ ~in_range(IF p.battles # 0 THEN (p.win * 100) \div p.battles ELSE 0, evo.win_ratio))

\* the condition under which the loop of update_evolution skips a path
path_blocked(p, evo) ==
  \/ Has(evo, "jogress") \/ Has(evo, "item")
  \/ (Has(evo, "mistakes") /\ ~in_range(p.mistakes, evo.mistakes))
  \/ (Has(evo, "condition_hearts") /\ ~in_range(p.condition_hearts, evo.condition_hearts))
  \/ (Has(evo, "training") /\ ~in_range(p.effort \div 4, evo.training))
  \/ (Has(evo, "overfeed") /\ ~in_range(p.overfeed, evo.overfeed))
  \/ (Has(evo, "level") /\ ~in_range(p.level, evo.level))
  \/ (\E k \in 5..9 : Has(evo, StageKey(k)) /\ ~in_range(p.enemy_kills[k], evo[StageKey(k)]))
  \/ (Has(evo, "sleep_disturbances") /\ ~in_range(p.sleep_disturbances, evo.sleep_disturbances))
  \/ (Has(evo, "battles") /\ ~in_range(p.battles, evo.battles))
  \/ (Has(evo, "win_ratio") /\ p.battles # 0
        /\ ~in_range((p.win * 100) \div p.battles, evo.win_ratio))

is_unlocked(g, category, key) == <<category, key>> \in g.unlocked

unlock_item(g, category, key) == [g EXCEPT !.unlocked = g.unlocked \cup {<<category, key>>}]

\* evolve_to that hands the pet over at stage 0 instead of the stage of the
\* species data (line 328)
evolve_to_at_stage_0(s, name, clk) ==
  LET data == get_monster(s.pet.module, name)
  IN IF data = NoMonster THEN [s EXCEPT !.exc = TRUE]
     ELSE LET p1 == reset_variables(set_data(s.pet, data))
              p2 == set_state(p1, "happy1", FALSE, clk)
          IN [s EXCEPT !.pet = [p2 EXCEPT !.stage = 0],
                       !.game.digidex = s.game.digidex \cup {p2.name}]

evolve_to(s, name, clk) ==
  LET data == get_monster(s.pet.module, name)
  IN IF data = NoMonster THEN [s EXCEPT !.exc = TRUE]
     ELSE LET p1 == reset_variables(set_data(s.pet, data))
              p2 == set_state(p1, "happy1", FALSE, clk)
          IN [s EXCEPT !.pet = p2,
                       !.game.digidex = s.game.digidex \cup {p2.name}]

\* the unlocks of the module whose trigger set holds the target
grant_unlocks(g, module, to) ==
  LET names == { module.unlocks[i].name : i \in
                   { j \in 1..Len(module.unlocks) :
                       module.unlocks[j].type = "evolution" /\ to \in module.unlocks[j].to } }
  IN [g EXCEPT !.unlocked = g.unlocked \cup { <<"evolution", n>> : n \in names }]

\* the body of the loop for path i, once the path is not blocked
take_path(s, evo, clk) ==
  LET s1 == [s EXCEPT !.game = grant_unlocks(s.game, s.pet.module, evo.to)]
      s2 == IF s1.pet.stage = 0 /\ s1.pet.shake_counter >= SHAKEN_EGG_COUNT
               /\ s1.pet.module.enable_shaken_egg
              THEN [s1 EXCEPT !.pet.shook = TRUE] ELSE s1
  IN evolve_to(s2, evo.to, clk)

RECURSIVE evolution_scan(_, _, _)
evolution_scan(s, i, clk) ==
  IF i > Len(s.pet.evolve) THEN s
  ELSE LET evo == s.pet.evolve[i]
           data == get_monster(s.pet.module, evo.to)
       IN IF path_blocked(s.pet, evo) THEN evolution_scan(s, i + 1, clk)
          ELSE IF s.pet.stage > 0 /\ data = NoMonster THEN [s EXCEPT !.exc = TRUE]
          ELSE IF s.pet.stage > 0 /\ data.special /\ data.special_key # ""
                  /\ ~is_unlocked(s.game, "evolutions", data.special_key)
            THEN evolution_scan(s, i + 1, clk)
          ELSE take_path(s, evo, clk)

update_evolution(s, clk) ==
  IF s.pet.stage > 5 \/ s.pet.timer < s.pet.time * MinuteTicks \/ need_care(s.pet, clk)
    THEN s
    ELSE evolution_scan(s, 1, clk)

(***************************************************************************)
(* Needs, pooping, care mistakes                                           *)
(***************************************************************************)
\* update_needs without the overfeed test of line 535: hunger decays during the
\* grace too
update_needs_ignoring_grace(p) ==
  LET p1 == IF p.timer % (p.hunger_loss * MinuteTicks) = 0
              THEN IF p.hunger > 0 THEN [p EXCEPT !.hunger = p.hunger - 1]
                   ELSE [p EXCEPT !.starvation_counter = p.starvation_counter + 1]
              ELSE p
      p2 == IF p1.timer % (p1.strength_loss * MinuteTicks) = 0 /\ p1.strength > 0
              THEN IF p1.strength > 4 THEN [p1 EXCEPT !.strength = 4]
                   ELSE [p1 EXCEPT !.strength = p1.strength - 1]
              ELSE p1
  IN IF p2.overfeed_timer > 0 THEN [p2 EXCEPT !.overfeed_timer = p2.overfeed_timer - 1]
     ELSE p2

\* update_needs without lines 538-539: an empty stomach is not counted
update_needs_without_starvation(p) ==
  LET p1 == IF p.timer % (p.hunger_loss * MinuteTicks) = 0 /\ p.overfeed_timer = 0
              THEN IF p.hunger > 0 THEN [p EXCEPT !.hunger = p.hunger - 1]
                   ELSE p
              ELSE p
      p2 == IF p1.timer % (p1.strength_loss * MinuteTicks) = 0 /\ p1.strength > 0
              THEN IF p1.strength > 4 THEN [p1 EXCEPT !.strength = 4]
                   ELSE [p1 EXCEPT !.strength = p1.strength - 1]
              ELSE p1
  IN IF p2.overfeed_timer > 0 THEN [p2 EXCEPT !.overfeed_timer = p2.overfeed_timer - 1]
     ELSE p2

update_needs(p) ==
  LET p1 == IF p.timer % (p.hunger_loss * MinuteTicks) = 0 /\ p.overfeed_timer = 0
              THEN IF p.hunger > 0 THEN [p EXCEPT !.hunger = p.hunger - 1]
                   ELSE [p EXCEPT !.starvation_counter = p.starvation_counter + 1]
              ELSE p
      p2 == IF p1.timer % (p1.strength_loss * MinuteTicks) = 0 /\ p1.strength > 0
              THEN IF p1.strength > 4 THEN [p1 EXCEPT !.strength = 4]
                   ELSE [p1 EXCEPT !.strength = p1.strength - 1]
              ELSE p1
  IN IF p2.overfeed_timer > 0 THEN [p2 EXCEPT !.overfeed_timer = p2.overfeed_timer - 1]
     ELSE p2

\* 48 hours, in ticks
AGE_48H_TICKS == 48 * 60 * MinuteTicks

update_pooping(s, clk) ==
  LET p == s.pet IN
  IF p.stage <= 0 \/ p.timer < MinuteTicks THEN s
  ELSE
    LET p1 == IF s.game.poop_list >= Cardinality(s.game.pet_list) * 8 /\ p.stage >= 2
                THEN IF p.poop_count_flag = 0
                       THEN set_sick([p EXCEPT !.poop_count_flag = 1], clk)
                       ELSE p
                ELSE [p EXCEPT !.poop_count_flag = 0]
        depletion_rate == IF p1.stage >= 6 /\ p1.age_timer >= AGE_48H_TICKS THEN 2 ELSE 1
        p2 == IF p1.timer % ((p1.poop_timer * MinuteTicks) \div depletion_rate) = 0
                THEN set_state(p1, "pooping", FALSE, clk) ELSE p1
    IN WithPet(s, p2)

\* add_care_mistake with line 606 run in both modes
add_care_mistake_counting(p, mistake_type) ==
  LET q == IF p.use_condition_hearts /\ p.condition_hearts_max > 0
             THEN [p EXCEPT !.condition_hearts_max = p.condition_hearts_max - 1]
             ELSE p
  IN [q EXCEPT !.mistakes = q.mistakes + 1]

add_care_mistake(p, mistake_type) ==
  IF p.use_condition_hearts
    THEN IF p.condition_hearts_max > 0
           THEN [p EXCEPT !.condition_hearts_max = p.condition_hearts_max - 1]
           ELSE p
    ELSE [p EXCEPT !.mistakes = p.mistakes + 1]

update_care_mistakes(p, clk) ==
  LET p1 == IF p.hunger = 0
              THEN LET q == [p EXCEPT !.care_food_mistake_timer = p.care_food_mistake_timer + 1]
                   IN IF q.care_food_mistake_timer = q.module.meat_care_mistake_time
                        THEN add_care_mistake(q, "hunger") ELSE q
              ELSE p
      p2 == IF p1.strength = 0
              THEN LET q == [p1 EXCEPT !.care_strength_mistake_timer =
                                          p1.care_strength_mistake_timer + 1]
                   IN IF q.care_strength_mistake_timer = q.module.protein_care_mistake_time
                        THEN add_care_mistake(q, "strength") ELSE q
              ELSE p1
      p3 == IF p2.sick > 0
              THEN [p2 EXCEPT !.care_sick_mistake_timer = p2.care_sick_mistake_timer + 1]
              ELSE [p2 EXCEPT !.care_sick_mistake_timer = 0]
  IN IF should_sleep(p3, clk)
       THEN LET q == [p3 EXCEPT !.care_sleep_mistake_timer = p3.care_sleep_mistake_timer + 1]
            IN IF q.care_sleep_mistake_timer >= q.module.sleep_care_mistake_timer
                 THEN [add_care_mistake(q, "sleep") EXCEPT !.care_sleep_mistake_timer = 0]
                 ELSE q
       ELSE p3

(***************************************************************************)
(* Death                                                                   *)
(***************************************************************************)
\* the death conditions with the sick timer of line 360 compared by >=
death_result_sick_at_threshold(p) ==
  LET m == p.module IN
  \/ p.injuries >= m.death_max_injuries
  \/ p.care_sick_mistake_timer >= m.death_sick_timer
  \/ p.care_food_mistake_timer > m.death_hunger_timer
  \/ p.care_strength_mistake_timer > m.death_strength_timer
  \/ (p.stage \in {4, 5} /\ p.mistakes >= m.death_stage45_mistake
        /\ p.timer > p.time * MinuteTicks)
  \/ (p.stage >= 6 /\ p.mistakes >= m.death_stage67_mistake /\ p.age_timer >= AGE_48H_TICKS)
  \/ (m.death_starvation_count > 0 /\ p.starvation_counter > m.death_starvation_count)
  \/ p.mistakes >= m.death_care_mistake

\* the death conditions with line 379-380 (the care-mistake count) left out
death_result_without_mistakes(p) ==
  LET m == p.module IN
  \/ p.injuries >= m.death_max_injuries
  \/ p.care_sick_mistake_timer > m.death_sick_timer
  \/ p.care_food_mistake_timer > m.death_hunger_timer
  \/ p.care_strength_mistake_timer > m.death_strength_timer
  \/ (p.stage \in {4, 5} /\ p.mistakes >= m.death_stage45_mistake
        /\ p.timer > p.time * MinuteTicks)
  \/ (p.stage >= 6 /\ p.mistakes >= m.death_stage67_mistake /\ p.age_timer >= AGE_48H_TICKS)
  \/ (m.death_starvation_count > 0 /\ p.starvation_counter > m.death_starvation_count)

\* the conditions of check_death_conditions, OR-combined
death_result(p) ==
  LET m == p.module IN
  \/ p.injuries >= m.death_max_injuries
  \/ p.care_sick_mistake_timer > m.death_sick_timer
  \/ p.care_food_mistake_timer > m.death_hunger_timer
  \/ p.care_strength_mistake_timer > m.death_strength_timer
  \/ (p.stage \in {4, 5} /\ p.mistakes >= m.death_stage45_mistake
        /\ p.timer > p.time * MinuteTicks)
  \/ (p.stage >= 6 /\ p.mistakes >= m.death_stage67_mistake /\ p.age_timer >= AGE_48H_TICKS)
  \/ (m.death_starvation_count > 0 /\ p.starvation_counter > m.death_starvation_count)
  \/ p.mistakes >= m.death_care_mistake

\* the button mechanic: [pet, ret] where ret is "go" when the code falls through
save_by_b_press(p) ==
  IF p.death_save_counter = -1
    THEN [pet |-> [p EXCEPT !.death_save_counter = B_PRESS_COUNTDOWN], ret |-> "false"]
  ELSE IF p.death_save_counter > 0 THEN [pet |-> p, ret |-> "true"]
  ELSE [pet |-> [p EXCEPT !.death_save_counter = -1], ret |-> "go"]

\* the shake mechanic
save_by_shake(p) ==
  IF p.shake_counter = -1
    THEN [pet |-> [p EXCEPT !.shake_counter = SHAKE_COUNTDOWN], ret |-> "false"]
  ELSE IF p.shake_counter > 0 THEN [pet |-> p, ret |-> "true"]
  ELSE [pet |-> [p EXCEPT !.shake_counter = -1], ret |-> "go"]

\* check_death_conditions(): [pet, ret]
check_death_conditions(p) ==
  IF p.state \in {"nap", "dead"} THEN [pet |-> p, ret |-> FALSE]
  ELSE
    LET result == death_result(p)
        b == IF result /\ p.module.death_save_by_b_press
               THEN save_by_b_press(p) ELSE [pet |-> p, ret |-> "go"]
        k == IF b.ret = "go" /\ result /\ b.pet.module.death_save_by_shake
               THEN save_by_shake(b.pet) ELSE [pet |-> b.pet, ret |-> "go"]
    IN IF b.ret # "go" THEN [pet |-> b.pet, ret |-> (b.ret = "true")]
       ELSE IF k.ret # "go" THEN [pet |-> k.pet, ret |-> (k.ret = "true")]
       ELSE [pet |-> k.pet, ret |-> result]

\* the elapsed ticks after which a dmx pet earns a traited egg
DMX_TRAIT_TICKS == 5184000

TraitKey(p) == <<p.module.name, p.version>>

\* set_traited_egg(): roll is "random.randint(0, 10) <= 3"
set_traited_egg(s, roll) ==
  LET p == s.pet
      grant == [s EXCEPT !.game.traited = s.game.traited \cup {TraitKey(p)}]
  IN CASE p.module.ruleset = "dmc" ->
            IF p.stage \in {6, 7} /\ roll THEN grant ELSE s
       [] p.module.ruleset = "penc" ->
            LET win_ratio == IF p.battles > 0 THEN (p.win * 100) \div p.battles ELSE 0
            IN IF p.stage >= 6 /\ p.age_timer >= AGE_48H_TICKS /\ win_ratio >= 60
                 THEN grant ELSE s
       [] p.module.ruleset = "dmx" ->
            IF p.version > 4 /\ ~p.has_area THEN [s EXCEPT !.exc = TRUE]
            ELSE IF p.timer > DMX_TRAIT_TICKS /\ ~(p.version > 4 /\ p.area < 45)
              THEN grant ELSE s
       [] OTHER -> s

update_death_check(s, roll, clk) ==
  LET c == check_death_conditions(s.pet)
      p1 == IF c.ret THEN [set_state(c.pet, "dead", FALSE, clk) EXCEPT !.timer = 0]
            ELSE c.pet
      s1 == WithPet(s, p1)
  IN IF p1.state = "dead" /\ p1.timer > DEAD_REMOVE_TICKS
       THEN LET s2 == [s1 EXCEPT !.game.pet_list = s1.game.pet_list \ {"self"}]
                s3 == set_traited_egg(s2, roll)
            IN IF s3.exc THEN s3
               ELSE IF s3.game.pet_list = {} THEN [s3 EXCEPT !.game.scene = "egg"]
               ELSE s3
       ELSE s1

(***************************************************************************)
(* update(): one tick.  Inputs: the wall clock clk, the idle-movement      *)
(* decision mv, whether a nap was long enough to restore dp, and the       *)
(* traited-egg roll.                                                       *)
(***************************************************************************)
\* animation_counter value at which a pooping pet drops the mess:
\* int(15 * (FRAME_RATE / 30))
PoopFrame == (15 * FRAME_RATE) \div 30

\* line 226-240: the dispatch on the current state
update_dispatch(s, mv, long, clk) ==
  LET p == s.pet IN
  IF p.state # "nap" /\ p.state \in {"moving", "idle"}
    THEN WithPet(s, update_idle_movement(p, mv, clk))
  ELSE IF p.state = "nap" THEN WithPet(s, check_wake_up(p, clk, long))
  ELSE IF p.state = "pooping"
    THEN IF p.animation_counter = PoopFrame THEN poop(s, clk) ELSE s
  ELSE IF p.state \in {"moving", "idle"} /\ p.timer % (FRAME_RATE \div 2) = 0
          /\ should_sleep(p, clk)
    THEN WithPet(s, set_state(p, "tired", FALSE, clk))
  ELSE s

\* line 243: age_timer % (FRAME_RATE * 86.400) == 0, in tenths
update_age(p) ==
  IF (p.age_timer * 10) % (FRAME_RATE * 864) = 0 THEN [p EXCEPT !.age = p.age + 1] ELSE p

\* line 257-260 without the set_state of line 260: the counter runs out and
\* the pet stays awake
update_back_to_sleep_staying_awake(p, clk) ==
  IF p.back_to_sleep > 0
    THEN [p EXCEPT !.back_to_sleep = p.back_to_sleep - 1]
    ELSE p

\* line 257-260
update_back_to_sleep(p, clk) ==
  IF p.back_to_sleep > 0
    THEN LET q == [p EXCEPT !.back_to_sleep = p.back_to_sleep - 1]
         IN IF q.back_to_sleep = 0 /\ q.state # "nap" /\ should_sleep(q, clk)
              THEN set_state(q, "nap", FALSE, clk) ELSE q
    ELSE p

\* line 249-253: the minute block up to the death check
\* the one element of a singleton set.  A statement sequence a = f(s); b = g(a)
\* is written Only({ g(a) : a \in {f(s)} }), which computes each intermediate
\* state once
Only(S) == CHOOSE x \in S : TRUE

\* the minute block with the test of line 249 reduced to "not dead": the
\* updates run for a sleeping pet too
update_minute_care_for_sleepers(s, clk) ==
  IF s.pet.state # "dead"
    THEN Only({ IF a.exc THEN a
                ELSE Only({ WithPet(b, update_care_mistakes(b.pet, clk)) :
                            b \in {update_pooping(WithPet(a, update_needs(a.pet)), clk)} }) :
                a \in {update_evolution(s, clk)} })
    ELSE s

update_minute_care(s, clk) ==
  IF s.pet.state \notin {"nap", "dead"}
    THEN Only({ IF a.exc THEN a
                ELSE Only({ WithPet(b, update_care_mistakes(b.pet, clk)) :
                            b \in {update_pooping(WithPet(a, update_needs(a.pet)), clk)} }) :
                a \in {update_evolution(s, clk)} })
    ELSE s

\* line 248-260: the once-per-minute block
update_minute(s, roll, clk) ==
  Only({ Only({ IF s2.exc THEN s2 ELSE WithPet(s2, update_back_to_sleep(s2.pet, clk)) :
                s2 \in { IF s1.exc THEN s1
                         ELSE IF s1.pet.state # "nap" THEN update_death_check(s1, roll, clk)
                         ELSE s1 } }) :
         s1 \in {update_minute_care(s, clk)} })

\* line 222-245: the part of update() that runs on every tick
update_head(s, mv, long, clk) ==
  LET p1 == [s.pet EXCEPT !.timer = s.pet.timer + 1, !.age_timer = s.pet.age_timer + 1]
      s2 == update_dispatch(WithPet(s, update_animation(p1, clk)), mv, long, clk)
  IN WithPet(s2, update_age(s2.pet))

is_minute_tick(p) == p.timer % MinuteTicks = 0

update(s, mv, long, roll, clk) ==
  Only({ IF is_minute_tick(s3.pet) THEN update_minute(s3, roll, clk) ELSE s3 :
         s3 \in {update_head(s, mv, long, clk)} })

(***************************************************************************)
(* Action entry points                                                     *)
(***************************************************************************)
can_battle(p) == p.stage > 1 /\ p.power > 0 /\ p.state # "dead" /\ p.atk_main > 0

FoodTypes == {"hunger", "strength", "other"}

\* set_eating with the full-stomach test of line 441 left out: hunger food
\* is refused during the overfeed grace only
set_eating_when_full(p, food_type, amount, clk) ==
  IF food_type = "hunger" /\ p.overfeed_timer = 0
    THEN LET q == set_state(p, "eat", TRUE, clk)
         IN [pet |-> [q EXCEPT !.hunger = Min(q.stomach, q.hunger + amount),
                               !.care_food_mistake_timer = 0],
             ret |-> TRUE]
    ELSE [pet |-> set_state(p, "nope", FALSE, clk), ret |-> FALSE]

\* set_eating(food_type, amount): [pet, ret]
set_eating(p, food_type, amount, clk) ==
  LET m == p.module IN
  IF ~m.can_eat_sleeping /\ p.state = "nap" THEN [pet |-> p, ret |-> FALSE]
  ELSE IF food_type = "hunger"
    THEN IF p.hunger = p.stomach \/ p.overfeed_timer # 0
           THEN LET q == IF p.overfeed_timer = 0
                           THEN [p EXCEPT !.overfeed_timer = m.overfeed_timer,
                                          !.overfeed = p.overfeed + 1]
                           ELSE p
                IN [pet |-> set_state(q, "nope", FALSE, clk), ret |-> FALSE]
           ELSE LET q == set_state(p, "eat", TRUE, clk)
                IN [pet |-> [q EXCEPT !.hunger = Min(q.stomach, q.hunger + amount),
                                      !.care_food_mistake_timer = 0],
                    ret |-> TRUE]
  ELSE IF food_type = "strength"
    THEN LET q  == set_state(p, "eat", FALSE, clk)
             q1 == [q EXCEPT !.strength = Min(4, q.strength + amount),
                             !.protein_overdose = q.protein_overdose + 1]
             q2 == IF q1.dp < q1.energy /\ q1.protein_overdose % 4 = 0
                     THEN [q1 EXCEPT !.dp = q1.dp + m.protein_dp_gain] ELSE q1
         IN [pet |-> [q2 EXCEPT !.care_strength_mistake_timer = 0], ret |-> TRUE]
  ELSE IF can_battle(p) THEN [pet |-> set_state(p, "eat", FALSE, clk), ret |-> TRUE]
  ELSE [pet |-> set_state(p, "nope", FALSE, clk), ret |-> FALSE]

finish_training(p, won, clk) ==
  LET q == IF won
             THEN LET a == set_state(p, "happy2", FALSE, clk)
                      b == [a EXCEPT !.effort = a.effort + a.module.training_effort_gain]
                  IN IF b.disturbance_penalty > 2
                       THEN [b EXCEPT !.disturbance_penalty = b.disturbance_penalty - 2]
                       ELSE b
             ELSE set_state(p, "angry", FALSE, clk)
  IN [q EXCEPT !.strength = q.strength + q.module.training_strengh_gain]

\* line 818 without the upper clamp
clamp_chance_lower_only(raw) == Max(5, raw)

\* line 818: max(0.05, min(sick_chance / 100, 0.5)), in percent
clamp_chance(raw) == Max(5, Min(raw, 50))

\* line 794-818: the sickness chance of a battle, in percent: [pet, chance]
battle_sick_chance(p, won) ==
  LET m == p.module IN
  IF won THEN [pet |-> p, chance |-> clamp_chance(m.battle_base_sick_chance_win)]
  ELSE LET q1 == IF p.protein_overdose > m.protein_overdose_max
                   THEN [p EXCEPT !.protein_overdose = m.protein_overdose_max] ELSE p
           q2 == IF q1.disturbance_penalty > m.disturbance_penalty_max
                   THEN [q1 EXCEPT !.disturbance_penalty = m.disturbance_penalty_max] ELSE q1
           raw == m.battle_base_sick_chance_lose + q2.protein_overdose * 10
                    + q2.disturbance_penalty
       IN [pet |-> q2, chance |-> clamp_chance(raw)]

\* the random draws of finish_battle, in percent: the pet sickens when the draw
\* is below the chance
Rolls == {4, 20, 50}

EnemyStages == {5}

Areas == {1}

\* finish_battle(won, enemy, area); r is the random draw
finish_battle(p, won, enemy_stage, area, r, clk) ==
  LET p1 == [p EXCEPT !.battles = p.battles + 1, !.dp = p.dp - 1]
      p2 == IF won
              THEN LET a == set_state(p1, "happy3", FALSE, clk)
                       b == [a EXCEPT !.win = a.win + 1]
                       c == IF ~b.has_area THEN [b EXCEPT !.has_area = TRUE, !.area = 0] ELSE b
                       d == IF c.area < area THEN [c EXCEPT !.area = area] ELSE c
                   IN [d EXCEPT !.enemy_kills[enemy_stage] = d.enemy_kills[enemy_stage] + 1]
              ELSE p1
      sc == battle_sick_chance(p2, won)
  IN IF r < sc.chance THEN set_sick(sc.pet, clk) ELSE sc.pet

check_disturbed_sleep(p, clk) ==
  IF p.state = "nap"
    THEN LET q == set_state(p, "idle", FALSE, clk)
         IN set_back_to_sleep([q EXCEPT !.sleep_disturbances = q.sleep_disturbances + 1,
                                        !.disturbance_penalty = q.disturbance_penalty + 2])
    ELSE p

force_poop(p, clk) == set_state(p, "pooping", FALSE, clk)

(***************************************************************************)
(* Experience.  MAX_LEVEL (by stage) and EXPERIENCE_LEVEL (by level) are   *)
(* the tables of core.constants; the thresholds are small so that one call *)
(* can cross more than one of them.                                        *)
(***************************************************************************)
MAX_LEVEL == [st \in 0..8 |-> IF st < 3 THEN 1 ELSE st]

EXPERIENCE_LEVEL == [l \in 1..10 |-> 2 * (l - 1)]

\* add_experience without lines 831-832: the experience left over at the
\* level-up that reaches the maximum is kept
add_experience_keeping_overflow(p, xp) ==
  LET p1 == [p EXCEPT !.experience = p.experience + xp]
      p2 == IF p1.level = MAX_LEVEL[p1.stage] THEN [p1 EXCEPT !.experience = 0] ELSE p1
  IN IF p2.experience >= EXPERIENCE_LEVEL[p2.level + 1]
       THEN [p2 EXCEPT !.experience = p2.experience - EXPERIENCE_LEVEL[p2.level + 1],
                       !.level = p2.level + 1]
       ELSE p2

add_experience(p, xp) ==
  LET p1 == [p EXCEPT !.experience = p.experience + xp]
      p2 == IF p1.level = MAX_LEVEL[p1.stage] THEN [p1 EXCEPT !.experience = 0] ELSE p1
  IN IF p2.experience >= EXPERIENCE_LEVEL[p2.level + 1]
       THEN LET p3 == [p2 EXCEPT !.experience = p2.experience - EXPERIENCE_LEVEL[p2.level + 1],
                                 !.level = p2.level + 1]
            IN IF p3.level = MAX_LEVEL[p3.stage] THEN [p3 EXCEPT !.experience = 0] ELSE p3
       ELSE p2

(***************************************************************************)
(* Persistence.  A snapshot is the instance dictionary: a function from    *)
(* the names of the attributes the instance has to their values.  The      *)
(* attribute area is in it only once a won battle has created it.          *)
(***************************************************************************)
\* the attributes of the instance dictionary
AttributesOf(p) == (DOMAIN p \ {"has_area"}) \ (IF p.has_area THEN {} ELSE {"area"})

\* __getstate__ popping "area" instead of "frames"
getstate_popping_area(p) ==
  [k \in AttributesOf(p) \ {"area"} |-> p[k]]

\* __getstate__(): a copy of the dictionary without the key "frames"
getstate(p) ==
  [k \in AttributesOf(p) \ {"frames"} |-> p[k]]

\* __setstate__(state): the dictionary of the new instance is updated with
\* the snapshot; the sprites are loaded again
setstate(state) ==
  [k \in DOMAIN state \cup {"has_area", "area"} |->
     IF k = "has_area" THEN "area" \in DOMAIN state
     ELSE IF k \in DOMAIN state THEN state[k]
     ELSE 0]

(***************************************************************************)
(* The status window (src/components/window_status.py).  A page surface is *)
(* modelled by the values drawn on it; None is the empty sequence.  The    *)
(* weight, the module name and the sleep and wake strings are not part of  *)
(* the pet model and are left off the pages.                               *)
(***************************************************************************)
Pages == 1..4

\* WindowStatus.__init__(pet): the name and the stage are rendered here
WindowStatus(p) ==
  [ pet |-> "self", scrolling_name |-> p.name, scrolling_stage |-> p.stage,
    last_cache |-> << >>, last_cache_key |-> << >>, surface |-> << >> ]

\* set_pet(pet)
set_pet(w, p) ==
  [w EXCEPT !.pet = "self", !.scrolling_name = p.name, !.scrolling_stage = p.stage,
            !.last_cache = << >>, !.last_cache_key = << >>]

draw_page_1(p) == [age |-> p.age, version |-> p.version]

draw_page_2(p) ==
  [ hunger |-> p.hunger, strength |-> p.strength, level |-> p.level,
    exp |-> p.experience,
    condition |-> IF p.module.use_condition_hearts THEN p.condition_hearts ELSE p.mistakes,
    sleep_dist |-> p.sleep_disturbances, overfeed |-> p.overfeed, sick |-> p.injuries,
    can_battle |-> can_battle(p) ]

draw_page_3(p) ==
  [ effort |-> p.effort, power |-> p.power, dp |-> p.dp, energy |-> p.energy,
    battles |-> p.battles,
    stage_win_rate |-> IF p.battles > 0 THEN (p.win * 100) \div p.battles ELSE 0 ]

format_seconds(seconds) ==
  IF seconds > 0 THEN <<seconds \div 3600, (seconds % 3600) \div 60>> ELSE <<0, 0>>

draw_page_4(p) ==
  [ evolution |-> IF p.time >= 0 /\ p.evolve # << >>
                    THEN <<format_seconds(p.time * 60 - p.timer \div 30)>> ELSE << >>,
    poop_time |-> format_seconds(p.poop_timer * 60
                                   - ((p.timer \div 30) % (p.poop_timer * 60))),
    feed_time |-> format_seconds(p.hunger_loss * 60
                                   - ((p.timer \div 30) % (p.hunger_loss * 60))),
    flags |-> <<p.shook, p.traited>> ]

draw_methods(page_number, p) ==
  CASE page_number = 1 -> draw_page_1(p)
    [] page_number = 2 -> draw_page_2(p)
    [] page_number = 3 -> draw_page_3(p)
    [] page_number = 4 -> draw_page_4(p)

\* draw_page(surface, page_number): the page is redrawn when the key (pet
\* identity, page number; the screen constants never change) differs from the
\* cached one or nothing is cached; the cached page is blitted, and page 1
\* gets the scrolling name and stage on top
draw_page(w, page_number, p) ==
  LET cache_key == <<w.pet, page_number>>
      w1 == IF w.last_cache_key # <<cache_key>> \/ w.last_cache = << >>
              THEN [w EXCEPT !.last_cache = <<draw_methods(page_number, p)>>,
                             !.last_cache_key = <<cache_key>>]
              ELSE w
  IN [w1 EXCEPT !.surface =
        <<[ page |-> w1.last_cache[1],
            scrolling |-> IF page_number = 1
                            THEN <<w1.scrolling_name, w1.scrolling_stage>> ELSE << >> ]>>]

(***************************************************************************)
(* The settings menu (src/scenes/scene_settingsmenu.py).  Indices are      *)
(* 0-based as in the code.  A module is modelled by the number of its      *)
(* unlocked items and a background by its number in 1..n; game_background  *)
(* 0 is the unset background.  The record holds the scene's fields and the *)
(* globals it reads and writes.                                            *)
(***************************************************************************)
MaxModules == 2
MaxUnlocked == 2
MaxBackgrounds == 2

options == <<"Digidex", "Freezer Box", "Unlockables", "Settings">>

settings_options == <<"Background", "Show Clock", "Sound", "Debug">>

Inputs == {"UP", "DOWN", "LEFT", "RIGHT", "A", "B", "START", "SELECT"}

\* load_unlockables()
load_unlockables(m) ==
  [m EXCEPT !.unlockables_data = m.game_modules,
            !.current_unlock_module_index = 0, !.current_unlock_item_index = 0]

get_current_background_index(backgrounds, game_background) ==
  LET found == { i \in 1..Len(backgrounds) : backgrounds[i] = game_background }
  IN IF game_background = 0 \/ found = {} THEN 0
     ELSE (CHOOSE i \in found : \A j \in found : i <= j) - 1

\* SceneSettingsMenu.__init__()
SceneSettingsMenu(modules, backgrounds, game_background) ==
  [ mode |-> "menu", selected_index |-> 0,
    game_modules |-> modules, unlockables_data |-> modules,
    current_unlock_module_index |-> 0, current_unlock_item_index |-> 0,
    unlocked_backgrounds |-> backgrounds,
    current_bg_index |-> get_current_background_index(backgrounds, game_background),
    game_background |-> game_background, background_high_res |-> FALSE,
    showClock |-> TRUE, debug |-> FALSE, sound |-> 1, scene |-> "settings" ]

change_background(m, increase) ==
  LET n == Len(m.unlocked_backgrounds)
      i == IF increase THEN (m.current_bg_index + 1) % n ELSE (m.current_bg_index - 1) % n
  IN IF n = 0 THEN m
     ELSE [m EXCEPT !.current_bg_index = i, !.game_background = m.unlocked_backgrounds[i + 1]]

change_option(m, increase) ==
  LET option == settings_options[m.selected_index + 1]
  IN CASE option = "Show Clock" -> [m EXCEPT !.showClock = ~m.showClock]
       [] option = "Debug" -> [m EXCEPT !.debug = ~m.debug]
       [] option = "Sound" ->
            [m EXCEPT !.sound = Min(2, Max(0, m.sound + (IF increase THEN 1 ELSE -1)))]
       [] OTHER -> m

handle_enter(m) ==
  IF m.mode = "settings" /\ settings_options[m.selected_index + 1] = "Background"
    THEN [m EXCEPT !.mode = "background"]
  ELSE IF m.mode = "menu"
    THEN LET selected_option == options[m.selected_index + 1]
         IN CASE selected_option = "Digidex" -> [m EXCEPT !.scene = "digidex"]
              [] selected_option = "Freezer Box" -> [m EXCEPT !.scene = "freezer"]
              [] selected_option = "Unlockables" ->
                   [load_unlockables(m) EXCEPT !.mode = "unlockables", !.selected_index = 0]
              [] selected_option = "Settings" ->
                   [m EXCEPT !.mode = "settings", !.selected_index = 0]
  ELSE m

exit_to_game(m) ==
  IF m.mode = "settings" THEN [m EXCEPT !.selected_index = 0, !.mode = "menu"]
  ELSE [m EXCEPT !.scene = "game"]

\* handle_event(input_action): the menu after the call, and whether an
\* IndexError left it (line 252 indexes unlockables_data before any test)
handle_event(m, input_action) ==
  LET done(x) == [m |-> x, exc |-> FALSE]
      module_count == Len(m.unlockables_data)
      module_idx == m.current_unlock_module_index
      item_idx == m.current_unlock_item_index
      options_len == IF m.mode = "settings" THEN Len(settings_options) ELSE Len(options)
  IN IF m.mode = "background"
       THEN IF input_action \in {"START", "B"} THEN done([m EXCEPT !.mode = "settings"])
            ELSE IF input_action \in {"LEFT", "RIGHT"}
              THEN done(change_background(m, input_action = "RIGHT"))
            ELSE IF input_action = "SELECT"
              THEN done([m EXCEPT !.background_high_res = ~m.background_high_res])
            ELSE done(m)
     ELSE IF m.mode = "unlockables"
       THEN IF module_idx + 1 \notin 1..module_count THEN [m |-> m, exc |-> TRUE]
            ELSE LET unlocked == m.unlockables_data[module_idx + 1]
                 IN IF input_action \in {"START", "B"} THEN done([m EXCEPT !.mode = "menu"])
                    ELSE IF input_action = "LEFT"
                      THEN done([m EXCEPT
                                   !.current_unlock_module_index = (module_idx - 1) % module_count,
                                   !.current_unlock_item_index = 0])
                    ELSE IF input_action = "RIGHT"
                      THEN done([m EXCEPT
                                   !.current_unlock_module_index = (module_idx + 1) % module_count,
                                   !.current_unlock_item_index = 0])
                    ELSE IF input_action = "UP" /\ unlocked > 0
                      THEN done([m EXCEPT !.current_unlock_item_index = (item_idx - 1) % unlocked])
                    ELSE IF input_action = "DOWN" /\ unlocked > 0
                      THEN done([m EXCEPT !.current_unlock_item_index = (item_idx + 1) % unlocked])
                    ELSE done(m)
     ELSE IF input_action \in {"START", "B"} THEN done(exit_to_game(m))
     ELSE IF input_action = "UP"
       THEN done([m EXCEPT !.selected_index = (m.selected_index - 1) % options_len])
     ELSE IF input_action = "DOWN"
       THEN done([m EXCEPT !.selected_index = (m.selected_index + 1) % options_len])
     ELSE IF input_action \in {"LEFT", "RIGHT"}
       THEN IF m.mode = "settings" THEN done(change_option(m, input_action = "RIGHT"))
            ELSE done(m)
     ELSE IF input_action = "A" THEN done(handle_enter(m))
     ELSE done(m)

(***************************************************************************)
(* The state machine.  The wall clock reading clk is an input of every     *)
(* call: the game can be closed and reopened at any time of day.  An       *)
(* exception that leaves an entry point ends the run (raised).             *)
(***************************************************************************)
St == [pet |-> pet, game |-> game, exc |-> FALSE]

NewGame(others, unlocked) ==
  [ pet_list |-> {"self"} \cup others, poop_list |-> 0, traited |-> {},
    unlocked |-> unlocked, digidex |-> {}, scene |-> "game" ]

\* the status window is built for the pet and the settings menu for a game of
\* one module, one unlocked item and one background; neither has been used
Screens ==
  /\ window = WindowStatus(pet)
  /\ menu = SceneSettingsMenu(<<1>>, <<1>>, 1)

\* a pet of species n is created in a module of ruleset rs
InitWith(rss, saves, names, traits, unlocks) ==
  /\ \E rs \in rss, bp \in saves, sh \in saves, n \in names, tr \in traits :
       pet = NewPet(get_module(rs, bp, sh), n, tr, "day")
  /\ \E u \in unlocks : game = NewGame({}, u)
  /\ ops = 0
  /\ raised = FALSE
  /\ Screens

InRoster == "self" \in game.pet_list

Commit(s) ==
  /\ pet' = s.pet
  /\ game' = s.game
  /\ raised' = s.exc
  /\ UNCHANGED <<window, menu>>

\* the inputs a tick reads in the pet's state
MovesOf(p) == IF p.state \in {"moving", "idle"} /\ p.stage # 0 THEN Moves ELSE {"wait"}

LongsOf(p) == IF p.state = "nap" THEN BOOLEAN ELSE {FALSE}

\* the traited-egg roll is drawn at the removal of a dead pet
RollsOf(p) == IF p.state = "dead" /\ p.timer >= DEAD_REMOVE_TICKS THEN BOOLEAN ELSE {FALSE}

\* nothing in a tick of a dead pet reads the wall clock
ClocksOf(p) == IF p.state = "dead" THEN {"day"} ELSE Clock

\* the driver calls update() on every pet of the roster, once per frame
Tick ==
  /\ InRoster /\ ~raised
  /\ pet.timer < MaxMinutes * MinuteTicks
  /\ \E clk \in Clock, mv \in MovesOf(pet), long \in LongsOf(pet), roll \in RollsOf(pet) :
       Commit(update(St, mv, long, roll, clk))
  /\ UNCHANGED ops

\* an action entry point is called; b bounds the number of such calls
External(b) ==
  /\ InRoster /\ ~raised
  /\ ops < b
  /\ ops' = ops + 1

Amounts == 1..3

Feed(b) ==
  /\ External(b)
  /\ \E ft \in FoodTypes, amount \in Amounts :
       Commit(WithPet(St, set_eating(pet, ft, amount, "day").pet))

Train(b) ==
  /\ External(b)
  /\ \E won \in BOOLEAN :
       Commit(WithPet(St, finish_training(pet, won, "day")))

Battle(b) ==
  /\ External(b)
  /\ \E won \in BOOLEAN, es \in EnemyStages, area \in Areas, r \in Rolls :
       Commit(WithPet(St, finish_battle(pet, won, es, area, r, "day")))

Disturb(b) ==
  /\ External(b)
  /\ Commit(WithPet(St, check_disturbed_sleep(pet, "day")))

ForcePoop(b) ==
  /\ External(b)
  /\ Commit(WithPet(St, force_poop(pet, "day")))

Sicken(b) ==
  /\ External(b)
  /\ Commit(WithPet(St, set_sick(pet, "day")))

\* the scenes put a pet to sleep and play its reactions through set_state
SetState(b, targets) ==
  /\ External(b)
  /\ \E st \in targets, force \in BOOLEAN :
       Commit(WithPet(St, set_state(pet, st, force, "day")))

\* the jogress and item scenes call evolve_to for a path tagged jogress or item
EvolveTo(b) ==
  /\ External(b)
  /\ \E i \in 1..Len(pet.evolve) :
       /\ Has(pet.evolve[i], "jogress") \/ Has(pet.evolve[i], "item")
       /\ Commit(evolve_to(St, pet.evolve[i].to, "day"))

\* the game is saved and loaded again: the pet is replaced by the instance
\* restored from its snapshot
Reload(b) ==
  /\ External(b)
  /\ Commit(WithPet(St, setstate(getstate(pet))))

\* the battle scenes award experience
Experience(b) ==
  /\ External(b)
  /\ \E xp \in 0..MaxXp :
       Commit(WithPet(St, add_experience(pet, xp)))

\* the driver's tick, followed for MaxAnimTicks ticks of the timer
LongTick ==
  /\ InRoster /\ ~raised
  /\ pet.timer < MaxAnimTicks
  /\ \E clk \in ClocksOf(pet), mv \in MovesOf(pet), long \in LongsOf(pet), roll \in RollsOf(pet) :
       Commit(update(St, mv, long, roll, clk))
  /\ UNCHANGED ops

\* the status window draws a page: the scene calls draw_page every frame
DrawPage ==
  /\ InRoster /\ ~raised
  /\ \E page_number \in Pages : window' = draw_page(window, page_number, pet)
  /\ UNCHANGED <<pet, game, ops, raised, menu>>

\* the scene shows the pet again
SetPet ==
  /\ InRoster /\ ~raised
  /\ window' = set_pet(window, pet)
  /\ UNCHANGED <<pet, game, ops, raised, menu>>

\* the settings scene hands a key press to handle_event
MenuInput ==
  /\ ~raised /\ menu.scene = "settings"
  /\ \E input_action \in Inputs :
       LET r == handle_event(menu, input_action)
       IN menu' = r.m /\ raised' = r.exc
  /\ UNCHANGED <<pet, game, ops, window>>

(***************************************************************************)
(* Specifications.  Spec is the whole engine: every entry point, on a pet  *)
(* created as a Rookie.  The others keep the entry points one subsystem    *)
(* needs, with a larger budget of calls.                                   *)
(***************************************************************************)
Init == InitWith({"dmc"}, {FALSE}, {"Rookie"}, {FALSE}, {{}})

Next ==
  \/ Tick
  \/ Feed(MaxOps)
  \/ Train(MaxOps)
  \/ Battle(MaxOps)
  \/ Disturb(MaxOps)
  \/ ForcePoop(MaxOps)
  \/ Sicken(MaxOps)
  \/ SetState(MaxOps, States \ {"dead"})
  \/ EvolveTo(MaxOps)

Spec == Init /\ [][Next]_vars

\* needs and care mistakes: ticks and feeds, in every ruleset
InitCare == InitWith(Rulesets, {FALSE}, {"Rookie"}, {FALSE}, {{}})

NextCare == Tick \/ Feed(MaxCareOps)

SpecCare == InitCare /\ [][NextCare]_vars

\* battles: ticks, feeds and battles of a pet created as a ChampA
InitBattle == InitWith({"dmc"}, {FALSE}, {"ChampA"}, {FALSE}, {{}})

NextBattle ==
  \/ Tick
  \/ Feed(MaxBattleOps)
  \/ Battle(MaxBattleOps)

SpecBattle == InitBattle /\ [][NextBattle]_vars

\* evolution: ticks, feeds and training, with the special form locked
\* or unlocked
InitEvo == InitWith({"dmc"}, {FALSE}, {"Rookie"}, {FALSE},
                    {{}, {<<"evolutions", "k_secret">>}})

NextEvo ==
  \/ Tick
  \/ Feed(MaxEvoOps)
  \/ Train(MaxEvoOps)

SpecEvo == InitEvo /\ [][NextEvo]_vars

\* the death adjudicator, on pets whose save counters hold any value the
\* input handlers and a restored snapshot (__setstate__) can leave in them
SaveCounters == {-1, 0, 1}

InitDeath ==
  /\ \E bp \in BOOLEAN, sh \in BOOLEAN, dsc \in SaveCounters, shc \in SaveCounters :
       pet = [NewPet(get_module("dmc", bp, sh), "Rookie", FALSE, "day")
                EXCEPT !.death_save_counter = dsc, !.shake_counter = shc]
  /\ game = NewGame({}, {})
  /\ ops = 0
  /\ raised = FALSE
  /\ Screens

NextDeath == Tick

SpecDeath == InitDeath /\ [][NextDeath]_vars

\* the sickness chance of a battle, on pets that enter the battle with any
\* protein_overdose and disturbance_penalty
InitChance ==
  /\ \E rs \in Rulesets, po \in 0..MaxOverdose, dpen \in 0..MaxPenalty :
       pet = [NewPet(get_module(rs, FALSE, FALSE), "ChampA", FALSE, "day")
                EXCEPT !.protein_overdose = po, !.disturbance_penalty = dpen]
  /\ game = NewGame({}, {})
  /\ ops = 0
  /\ raised = FALSE
  /\ Screens

NextChance == Battle(MaxBattleOps)

SpecChance == InitChance /\ [][NextChance]_vars

\* training: ticks, feeds and training sessions of a Rookie
NextTrain ==
  \/ Tick
  \/ Feed(MaxTrainOps)
  \/ Train(MaxTrainOps)

SpecTrain == Init /\ [][NextTrain]_vars

\* the save mechanics: ticks of a pet created in a module that enables any
\* of them
InitSave == InitWith({"dmc"}, BOOLEAN, {"Rookie"}, {FALSE}, {{}})

SpecSave == InitSave /\ [][Tick]_vars

\* hatching: ticks and feeds of a pet created as an Egg or as a Rookie
InitHatch == InitWith({"dmc"}, {FALSE}, {"Egg", "Rookie"}, {FALSE},
                      {{}, {<<"evolutions", "k_secret">>}})

NextHatch == Tick \/ Feed(MaxEvoOps)

SpecHatch == InitHatch /\ [][NextHatch]_vars

\* the death conditions, on pets whose counters hold the values on either
\* side of each threshold of the module
Around(thr) == {0, thr, thr + 1}

InitCond ==
  /\ \E rs \in {"dmc", "dmx"}, n \in {"Rookie", "ChampA", "Mega"}, st \in {"idle", "nap", "dead"} :
       LET m == get_module(rs, FALSE, FALSE)
           p == NewPet(m, n, FALSE, "day")
       IN \E inj \in Around(m.death_max_injuries - 1), sk \in Around(m.death_sick_timer),
             fd \in Around(m.death_hunger_timer), sg \in Around(m.death_strength_timer),
             mis \in 0..m.death_care_mistake, sv \in Around(m.death_starvation_count),
             t \in {p.time * MinuteTicks, p.time * MinuteTicks + 1},
             age \in {AGE_48H_TICKS - 1, AGE_48H_TICKS} :
            pet = [p EXCEPT !.state = st, !.injuries = inj,
                            !.care_sick_mistake_timer = sk, !.care_food_mistake_timer = fd,
                            !.care_strength_mistake_timer = sg, !.mistakes = mis,
                            !.starvation_counter = sv, !.timer = t, !.age_timer = age]
  /\ game = NewGame({}, {})
  /\ ops = 0
  /\ raised = FALSE
  /\ Screens

\* update_death_check() is applied to the pet
DeathCheck(b) ==
  /\ External(b)
  /\ \E roll \in RollsOf(pet), clk \in Clock :
       Commit(update_death_check(St, roll, clk))

NextCond == DeathCheck(MaxOps)

SpecCond == InitCond /\ [][NextCond]_vars

\* the driver goes on calling update() on a dead pet until the pet has left
\* the roster
DeadTick ==
  /\ InRoster /\ ~raised
  /\ pet.state = "dead"
  /\ pet.timer >= MaxMinutes * MinuteTicks
  /\ \E clk \in ClocksOf(pet), roll \in RollsOf(pet) :
       Commit(update(St, "wait", FALSE, roll, clk))
  /\ UNCHANGED ops

\* removal: the ticks of a Rookie from its creation to its removal
NextRemoval == Tick \/ DeadTick

SpecRemoval == Init /\ [][NextRemoval]_vars

\* removal in every ruleset: the ticks of a pet created as a Mega (version 5)
\* from its creation to its removal
InitRemovalAll == InitWith(Rulesets, {FALSE}, {"Mega"}, {FALSE}, {{}})

SpecRemovalAll == InitRemovalAll /\ [][NextRemoval]_vars

\* persistence: ticks, battles and reloads of a pet created as a ChampA
NextSnap ==
  \/ Tick
  \/ Battle(MaxBattleOps)
  \/ Reload(MaxBattleOps)

SpecSnap == InitBattle /\ [][NextSnap]_vars

\* disturbed sleep: a Rookie is put to sleep, woken by the player and trained
NextDisturb ==
  \/ Tick
  \/ SetState(MaxTrainOps, {"nap"})
  \/ Disturb(MaxTrainOps)
  \/ Train(MaxTrainOps)

SpecDisturb == Init /\ [][NextDisturb]_vars

\* experience: awards to a pet created in any form
InitLevel == InitWith({"dmc"}, {FALSE}, {"Egg", "Rookie", "ChampA", "Mega"}, BOOLEAN, {{}})

NextLevel == Experience(MaxXpOps)

SpecLevel == InitLevel /\ [][NextLevel]_vars

\* the mess check: ticks of a Rookie that shares the screen with the messes
\* earlier pets left, their number on either side of the limit of 8 per pet
InitPoop ==
  /\ pet = NewPet(get_module("dmc", FALSE, FALSE), "Rookie", FALSE, "day")
  /\ \E n \in {7, 8, 9} : game = [NewGame({}, {}) EXCEPT !.poop_list = n]
  /\ ops = 0
  /\ raised = FALSE
  /\ Screens

SpecPoop == InitPoop /\ [][Tick]_vars

\* sleep: a Rookie is injured and put to sleep by the player
NextNap ==
  \/ Tick
  \/ Sicken(MaxTrainOps)
  \/ SetState(MaxTrainOps, {"nap"})

SpecNap == Init /\ [][NextNap]_vars

\* interrupted sleep: a Rookie of any ruleset is put to sleep and disturbed
NextSleep ==
  \/ Tick
  \/ SetState(MaxCareOps, {"nap"})
  \/ Disturb(MaxCareOps)

SpecSleep == InitCare /\ [][NextSleep]_vars

\* the win ratio: ticks, feeds and battles of a pet created as a ChampC, whose
\* one path asks for a win ratio and nothing else
InitRatio == InitWith({"dmc"}, {FALSE}, {"ChampC"}, {FALSE}, {{}})

NextRatio ==
  \/ Tick
  \/ Feed(MaxTrainOps)
  \/ Battle(MaxTrainOps)

SpecRatio == InitRatio /\ [][NextRatio]_vars

\* the states the timed reset of update_animation ends, and the others
Transient == States \ {"moving", "idle", "nap", "dead"}

\* animations: the ticks of a slow-living pet (an Elder) that is fed and
\* shown every reaction
InitAnim == InitWith({"dmc"}, {FALSE}, {"Elder"}, {FALSE}, {{}})

NextAnim ==
  \/ LongTick
  \/ Feed(MaxTrainOps)
  \/ SetState(MaxTrainOps, Transient)

SpecAnim == InitAnim /\ [][NextAnim]_vars

\* the status scene: the pet lives and is fed while its pages are drawn
NextWindow == Tick \/ Feed(MaxTrainOps) \/ DrawPage \/ SetPet

SpecWindow == Init /\ [][NextWindow]_vars

\* the settings menu of a game with any modules, unlocked items and
\* backgrounds, the current background being unset, unlocked or locked
ModuleSets == UNION { [1..n -> 0..MaxUnlocked] : n \in 0..MaxModules }

InitMenu ==
  /\ pet = NewPet(get_module("dmc", FALSE, FALSE), "Rookie", FALSE, "day")
  /\ game = NewGame({}, {})
  /\ ops = 0
  /\ raised = FALSE
  /\ window = WindowStatus(pet)
  /\ \E modules \in ModuleSets, n \in 0..MaxBackgrounds :
       \E game_background \in 0..(n + 1) :
         menu = SceneSettingsMenu(modules, [i \in 1..n |-> i], game_background)

NextMenu == MenuInput

SpecMenu == InitMenu /\ [][NextMenu]_vars

(***************************************************************************)
(* Claims                                                                  *)
(***************************************************************************)

\* C1: after any sequence of ticks and feeds, 0 <= hunger <= stomach and
\* 0 <= strength <= 4.  (Refuted: an evolution swaps in the new form's stomach
\* and leaves hunger as it was.)
C1_NeedsInRange ==
  /\ 0 <= pet.hunger /\ pet.hunger <= pet.stomach
  /\ 0 <= pet.strength /\ pet.strength <= 4

\* C2: the dead state is absorbing: no step of any operation takes a pet whose
\* state is "dead" to another state.
C2_DeadAbsorbing == [][pet.state = "dead" => pet'.state = "dead"]_vars

\* a dead Rookie has been evolved by evolve_to (its counters are reset) and has
\* ticked since, and is still dead
C2_Witness ==
  /\ pet.state = "dead" /\ pet.name = "Mega"
  /\ pet.mistakes = 0 /\ pet.timer > 0

\* the pet as update() hands it to update_death_check on a minute tick
AtDeathCheck(mv, long, clk) == update_minute_care(update_head(St, mv, long, clk), clk)

IsDeathCheck(mv, long, clk) ==
  /\ InRoster /\ ~raised
  /\ is_minute_tick(update_head(St, mv, long, clk).pet)
  /\ ~AtDeathCheck(mv, long, clk).exc
  /\ AtDeathCheck(mv, long, clk).pet.state \notin {"nap", "dead"}

\* every save mechanic the module enables holds the already-used sentinel
SavesUsed(p) ==
  /\ p.module.death_save_by_b_press \/ p.module.death_save_by_shake
  /\ p.module.death_save_by_b_press => p.death_save_counter = -1
  /\ p.module.death_save_by_shake => p.shake_counter = -1

C4_MistakesKill ==
  \A clk \in Clock, mv \in MovesOf(pet), long \in LongsOf(pet), roll \in RollsOf(pet) :
    LET m == AtDeathCheck(mv, long, clk).pet
    IN (/\ IsDeathCheck(mv, long, clk)
        /\ ~m.module.death_save_by_b_press /\ ~m.module.death_save_by_shake
        /\ m.mistakes >= m.module.death_care_mistake)
         => update(St, mv, long, roll, clk).pet.state = "dead"

\* a pet has died of its care mistakes alone
C4_Witness ==
  /\ pet.state = "dead"
  /\ ~pet.module.death_save_by_b_press /\ ~pet.module.death_save_by_shake
  /\ pet.mistakes >= pet.module.death_care_mistake
  /\ ~death_result_without_mistakes(pet)

\* C5: a pet whose module uses condition hearts keeps mistakes = 0.
C5_HeartsModeNoMistakes == pet.use_condition_hearts => pet.mistakes = 0

\* a pet in hearts mode has had a care mistake registered
C5_Witness ==
  /\ pet.use_condition_hearts
  /\ pet.condition_hearts_max < get_monster(pet.module, pet.name).condition_hearts
  /\ pet.mistakes = 0

\* a minute tick in which the hunger care mistake fires
HungerMistakeFires ==
  /\ pet'.name = pet.name /\ pet.state \notin {"nap", "dead"}
  /\ pet'.care_food_mistake_timer = pet.care_food_mistake_timer + 1
  /\ pet'.care_food_mistake_timer = pet.module.meat_care_mistake_time

\* C6: in hearts mode a care-mistake event lowers condition_hearts when it is
\* above 0 and leaves it at 0 otherwise.  (Refuted: the decrement goes to
\* condition_hearts_max.)
C6_HeartsDecrement ==
  [][(pet.use_condition_hearts /\ HungerMistakeFires)
       => IF pet.condition_hearts > 0
            THEN pet'.condition_hearts < pet.condition_hearts
            ELSE pet'.condition_hearts = 0]_vars

\* C7: hunger food offered to a pet with hunger = stomach, no overfeed grace
\* running and no sleep block is refused: set_eating returns False, leaves
\* hunger, starts the grace timer and counts one overfeed.
C7_OverfeedRejected ==
  \A amount \in Amounts, clk \in Clock :
    LET r == set_eating(pet, "hunger", amount, clk)
    IN (/\ pet.hunger = pet.stomach /\ pet.overfeed_timer = 0
        /\ ~(~pet.module.can_eat_sleeping /\ pet.state = "nap"))
         => /\ r.ret = FALSE
            /\ r.pet.hunger = pet.hunger
            /\ r.pet.overfeed_timer > 0
            /\ r.pet.overfeed = pet.overfeed + 1

\* a full pet has just been refused hunger food
C7_Witness ==
  /\ pet.state = "nope" /\ pet.hunger = pet.stomach
  /\ pet.overfeed = 1 /\ pet.overfeed_timer = pet.module.overfeed_timer

\* the range predicates an evolve entry can carry, and what each one reads
RangeKeys == {"mistakes", "condition_hearts", "training", "overfeed", "battles", "win_ratio"}

RangeHolds(p, evo, key) ==
  CASE key = "mistakes" -> in_range(p.mistakes, evo[key])
    [] key = "condition_hearts" -> in_range(p.condition_hearts, evo[key])
    [] key = "training" -> in_range(p.effort \div 4, evo[key])
    [] key = "overfeed" -> in_range(p.overfeed, evo[key])
    [] key = "battles" -> in_range(p.battles, evo[key])
    [] key = "win_ratio" -> p.battles = 0 \/ in_range((p.win * 100) \div p.battles, evo[key])

Matching(p) ==
  { i \in 1..Len(p.evolve) :
      /\ ~Has(p.evolve[i], "jogress") /\ ~Has(p.evolve[i], "item")
      /\ \A key \in DOMAIN p.evolve[i] \cap RangeKeys : RangeHolds(p, p.evolve[i], key) }

\* the entries whose target is a special form whose key has not been granted
LockedSpecial(p, g) ==
  { i \in 1..Len(p.evolve) :
      LET data == get_monster(p.module, p.evolve[i].to)
      IN /\ p.stage > 0 /\ data # NoMonster
         /\ data.special /\ data.special_key # ""
         /\ <<"evolutions", data.special_key>> \notin g.unlocked }

Lowest(S) == CHOOSE i \in S : \A j \in S : i <= j

Evolves == pet'.name # pet.name

\* C8 as stated: a tick that evolves the pet takes the lowest entry that is
\* untagged and whose range predicates hold.  (Refuted: an entry whose target
\* is a locked special form is passed over.)
C8_FirstMatch ==
  [][Evolves => /\ Matching(pet) # {}
                /\ pet'.name = pet.evolve[Lowest(Matching(pet))].to]_vars

\* C8 amended: a tick that evolves the pet takes the lowest entry that is
\* untagged, whose range predicates hold and whose target is not a locked
\* special form.
C8_FirstOpenMatch ==
  [][Evolves => /\ Matching(pet) \ LockedSpecial(pet, game) # {}
                /\ pet'.name =
                     pet.evolve[Lowest(Matching(pet) \ LockedSpecial(pet, game))].to]_vars

\* a pet has evolved past the entry of the special form while it was locked
C8_Witness ==
  /\ pet.name = "ChampB" /\ pet.state = "happy1"
  /\ <<"evolutions", "k_secret">> \notin game.unlocked

\* C9: the sickness chance of a battle is the base rate, plus on a loss the
\* protein overdose and the disturbance penalty each capped at its module
\* maximum, clamped to 5..50 percent.
C9_SickChanceClamped ==
  \A won \in BOOLEAN :
    LET m    == pet.module
        over == Min(pet.protein_overdose, m.protein_overdose_max)
        pen  == Min(pet.disturbance_penalty, m.disturbance_penalty_max)
        raw  == IF won THEN m.battle_base_sick_chance_win
                ELSE m.battle_base_sick_chance_lose + 10 * over + pen
        r    == battle_sick_chance(pet, won)
    IN /\ 5 <= r.chance /\ r.chance <= 50
       /\ raw < 5 => r.chance = 5
       /\ raw > 50 => r.chance = 50
       /\ (5 <= raw /\ raw <= 50) => r.chance = raw

\* a battle was lost with the capped contributions taking the chance past 50
\* percent, and the pet fell sick on a draw below 50
C9_Witness ==
  /\ pet.battles = 1 /\ pet.win = 0
  /\ pet.protein_overdose = pet.module.protein_overdose_max
  /\ pet.disturbance_penalty = pet.module.disturbance_penalty_max
  /\ pet.module.battle_base_sick_chance_lose + 10 * pet.protein_overdose
       + pet.disturbance_penalty > 50
  /\ pet.state = "sick"

\* C10: 0 <= dp <= energy in every reachable state.  (Refuted: finish_battle
\* takes 1 from dp whatever dp is.)
C10_DpInRange == 0 <= pet.dp /\ pet.dp <= pet.energy

\* C11: 0 <= strength <= 4 in every reachable state, also directly after
\* finish_training.  (Refuted: finish_training adds the strength gain with no
\* upper clamp.)
C11_StrengthInRange == 0 <= pet.strength /\ pet.strength <= 4

\* every save mechanic the module enables is unused: its counter is as
\* reset_variables left it
SavesFresh(p) ==
  /\ p.module.death_save_by_b_press \/ p.module.death_save_by_shake
  /\ p.module.death_save_by_b_press => p.death_save_counter = 0
  /\ p.module.death_save_by_shake => p.shake_counter = 0

\* C12: with a save mechanic enabled and unused, the first minute evaluation
\* at which a death condition holds does not kill the pet and arms a
\* countdown.  (Refuted: at 0 the code sets the counter to -1 and goes on to
\* return the death result.)
C12_FirstEvaluationArms ==
  \A clk \in Clock, mv \in MovesOf(pet), long \in LongsOf(pet) :
    LET m == AtDeathCheck(mv, long, clk).pet
        c == check_death_conditions(m)
    IN (IsDeathCheck(mv, long, clk) /\ death_result(m) /\ SavesFresh(m))
         => /\ ~c.ret
            /\ \/ c.pet.death_save_counter = B_PRESS_COUNTDOWN
               \/ c.pet.shake_counter = SHAKE_COUNTDOWN

\* the conditions of death as the rules state them
DeathCondition(p) ==
  LET m == p.module IN
  \/ p.injuries >= m.death_max_injuries
  \/ p.care_sick_mistake_timer > m.death_sick_timer
  \/ (p.care_food_mistake_timer > m.death_hunger_timer
        \/ p.care_strength_mistake_timer > m.death_strength_timer)
  \/ (p.stage \in {4, 5} /\ p.mistakes >= m.death_stage45_mistake
        /\ p.timer > p.time * MinuteTicks)
  \/ (p.stage >= 6 /\ p.mistakes >= m.death_stage67_mistake
        /\ p.age_timer >= 48 * 60 * MinuteTicks)
  \/ (m.death_starvation_count > 0 /\ p.starvation_counter > m.death_starvation_count)
  \/ p.mistakes >= m.death_care_mistake

\* C13: with both save mechanics disabled, check_death_conditions returns
\* true exactly when the pet is neither asleep nor dead and one of the death
\* conditions holds.
C13_DeathIffCondition ==
  (~pet.module.death_save_by_b_press /\ ~pet.module.death_save_by_shake)
    => /\ check_death_conditions(pet).ret
            = (pet.state \notin {"nap", "dead"} /\ DeathCondition(pet))
       /\ check_death_conditions(pet).pet = pet

\* a stage-4 pet past its evolution time died of one mistake, with every
\* other counter at or below its threshold
C13_Witness ==
  /\ pet.state = "dead" /\ pet.timer = 0 /\ ops = 1
  /\ pet.stage = 4 /\ pet.mistakes = pet.module.death_stage45_mistake
  /\ pet.mistakes < pet.module.death_care_mistake
  /\ pet.injuries < pet.module.death_max_injuries
  /\ pet.care_sick_mistake_timer = pet.module.death_sick_timer
  /\ pet.care_food_mistake_timer = pet.module.death_hunger_timer
  /\ pet.care_strength_mistake_timer = pet.module.death_strength_timer
  /\ pet.starvation_counter <= pet.module.death_starvation_count

\* C14: every tick of a dead pet leaves age_timer and the four care-mistake
\* timers as they were.  (Refuted: update() adds 1 to age_timer before it
\* looks at the state.)
C14_DeadTimersFrozen ==
  [][(pet.state = "dead" /\ ops' = ops)
       => /\ pet'.age_timer = pet.age_timer
          /\ pet'.care_food_mistake_timer = pet.care_food_mistake_timer
          /\ pet'.care_strength_mistake_timer = pet.care_strength_mistake_timer
          /\ pet'.care_sick_mistake_timer = pet.care_sick_mistake_timer
          /\ pet'.care_sleep_mistake_timer = pet.care_sleep_mistake_timer]_vars

\* C15: a dead pet whose timer exceeds 9000 is no longer in the roster.
\* (Refuted: the removal test runs on minute ticks only, so the pet stays in
\* the roster from timer 9001 to the next minute tick.)
C15_RemovedPast9000 ==
  (pet.state = "dead" /\ pet.timer > DEAD_REMOVE_TICKS) => ~InRoster

\* C16 as stated: a tick evolves a pet only if it is a minute tick, the stage
\* is at most 5, the species' time has elapsed and no need is unmet, whatever
\* the stage.  (Refuted: an egg hatches with hunger and strength 0.)
C16_EvolvesOnlyCaredFor ==
  \A clk \in Clock, mv \in MovesOf(pet), long \in LongsOf(pet), roll \in RollsOf(pet) :
    (InRoster /\ ~raised /\ update(St, mv, long, roll, clk).pet.name # pet.name)
      => /\ (pet.timer + 1) % MinuteTicks = 0
         /\ pet.stage <= 5
         /\ pet.timer + 1 >= pet.time * MinuteTicks
         /\ pet.hunger > 0 /\ pet.strength > 0 /\ pet.sick = 0
         /\ ~(pet.has_schedule /\ clk = "night")

\* C16 amended: the same, the needs being those of a pet of stage above 0.
C16_EvolvesOnlyCaredForPastEgg ==
  \A clk \in Clock, mv \in MovesOf(pet), long \in LongsOf(pet), roll \in RollsOf(pet) :
    (InRoster /\ ~raised /\ update(St, mv, long, roll, clk).pet.name # pet.name)
      => /\ (pet.timer + 1) % MinuteTicks = 0
         /\ pet.stage <= 5
         /\ pet.timer + 1 >= pet.time * MinuteTicks
         /\ pet.stage # 0
              => /\ pet.hunger > 0 /\ pet.strength > 0 /\ pet.sick = 0
                 /\ ~(pet.has_schedule /\ clk = "night")

\* a Rookie that was fed both foods has evolved at its minute tick
C16_Witness ==
  /\ pet.name \in {"ChampA", "ChampB"} /\ pet.state = "happy1"
  /\ pet.timer = 0 /\ pet.age_timer = MinuteTicks /\ ops = 2

\* C17: a tick never evolves a pet into a special form whose unlock key has
\* not been granted.  (Refuted: the lock is not looked at for a stage-0 egg.)
C17_NoLockedSpecial ==
  [][pet'.name # pet.name
       => LET data == get_monster(pet'.module, pet'.name)
          IN ~(data.special /\ data.special_key # ""
                 /\ <<"evolutions", data.special_key>> \notin game.unlocked)]_vars

\* the run-time counters are those of a freshly created pet
CountersReset(p) ==
  /\ p.timer = 0 /\ p.effort = 0 /\ p.sick = 0 /\ p.mistakes = 0
  /\ p.win = 0 /\ p.battles = 0 /\ p.overfeed = 0 /\ p.overfeed_timer = 0
  /\ p.sleep_disturbances = 0 /\ p.starvation_counter = 0
  /\ p.disturbance_penalty = 0 /\ p.protein_overdose = 0
  /\ p.care_food_mistake_timer = 0 /\ p.care_strength_mistake_timer = 0
  /\ p.care_sick_mistake_timer = 0 /\ p.care_sleep_mistake_timer = 0
  /\ p.shake_counter = 0 /\ p.death_save_counter = 0
  /\ p.experience = 0 /\ p.dp = p.energy

\* C18 as stated: after evolve_to the counters are reset, dp is the new energy
\* and the state is happy1.  (Refuted: a dead pet stays dead.)
C18_EvolveResetsAndCelebrates ==
  \A n \in MonsterNames :
    \A r \in {evolve_to(St, n, "day")} :
       /\ ~r.exc
       /\ r.pet.name = n /\ r.pet.energy = get_monster(pet.module, n).energy
       /\ CountersReset(r.pet)
       /\ r.pet.state = "happy1"

\* C18 amended: the same, the state being happy1 unless the pet was dead.
C18_EvolveResets ==
  \A n \in MonsterNames :
    \A r \in {evolve_to(St, n, "day")} :
       /\ ~r.exc
       /\ r.pet.name = n /\ r.pet.energy = get_monster(pet.module, n).energy
       /\ CountersReset(r.pet)
       /\ r.pet.state = IF pet.state = "dead" THEN "dead" ELSE "happy1"

\* a living Rookie that had made a care mistake has just been evolved by
\* evolve_to
C18_Witness ==
  /\ pet.name = "Mega" /\ pet.state = "happy1" /\ ops = 1
  /\ pet.age_timer >= MinuteTicks /\ CountersReset(pet)

C20_NoExceptionLeavesTick == ~raised

\* C21: the tick that removes a dead pet from the roster ends without an
\* exception, in every ruleset.  (Refuted: the dmx traited-egg check of a pet of
\* version above 4 reads the area attribute, which only a won battle creates.)
C21_RemovalCompletes ==
  [][(pet.state = "dead" /\ InRoster /\ ~raised /\ "self" \notin game'.pet_list)
       => ~raised']_vars

AtNeeds ==
  LET heads == { [s |-> update_head(St, mv, long, clk), clk |-> clk] :
                   mv \in MovesOf(pet), long \in LongsOf(pet), clk \in Clock }
      due   == { h \in heads : is_minute_tick(h.s.pet) /\ h.s.pet.state \notin {"nap", "dead"} }
      evos  == { update_evolution(h.s, h.clk) : h \in due }
  IN { a.pet : a \in { e \in evos : ~e.exc } }

\* C23: while the overfeed grace runs (overfeed_timer > 0), update_needs leaves
\* hunger and starvation_counter as they are, also when the hunger interval
\* elapses, and takes exactly 1 from overfeed_timer, which never goes below 0.
C23_GraceSuppressesHunger ==
  /\ pet.overfeed_timer >= 0
  /\ \A m \in AtNeeds :
       m.overfeed_timer > 0
         => \A r \in {update_needs(m)} :
              /\ r.hunger = m.hunger
              /\ r.starvation_counter = m.starvation_counter
              /\ r.overfeed_timer = m.overfeed_timer - 1
              /\ r.overfeed_timer >= 0

\* a full pet was refused food and has lived through the whole grace: two
\* minute ticks at which its hunger interval elapsed left its hunger full
C23_Witness ==
  /\ pet.overfeed = 1 /\ pet.overfeed_timer = 0
  /\ pet.hunger = pet.stomach /\ pet.starvation_counter = 0
  /\ pet.timer = pet.module.overfeed_timer * pet.hunger_loss * MinuteTicks

\* C24: when update_needs runs with the hunger interval elapsed (timer a
\* multiple of hunger_loss minutes) and no overfeed grace, either hunger was
\* above 0 and goes down by 1, or hunger was 0 and starvation_counter goes up
\* by 1, never both; when the interval has not elapsed neither changes.
C24_HungerOrStarvation ==
  \A m \in AtNeeds :
    \A r \in {update_needs(m)} :
      /\ (m.timer % (m.hunger_loss * MinuteTicks) = 0 /\ m.overfeed_timer = 0)
           => IF m.hunger > 0
                THEN r.hunger = m.hunger - 1 /\ r.starvation_counter = m.starvation_counter
                ELSE r.hunger = m.hunger /\ r.starvation_counter = m.starvation_counter + 1
      /\ m.timer % (m.hunger_loss * MinuteTicks) # 0
           => r.hunger = m.hunger /\ r.starvation_counter = m.starvation_counter

\* a Rookie given one piece of food in two minutes has had its hunger taken
\* down at one minute tick and its starvation counted at the other
C24_Witness ==
  /\ pet.name = "Rookie" /\ ops = 1 /\ pet.strength = 0 /\ pet.overfeed = 0
  /\ pet.timer = 2 * pet.hunger_loss * MinuteTicks
  /\ pet.hunger = 0 /\ pet.starvation_counter = 1

\* C25: when update_needs runs with the strength interval elapsed and strength
\* above 0, strength ends at min(strength, 4) - 1, so 3 for a pet whose strength
\* was above 4.  (Refuted: a strength above 4 is set to 4 and not decreased.)
C25_ClampThenDecrement ==
  \A m \in AtNeeds :
    \A r \in {update_needs(m)} :
      (m.timer % (m.strength_loss * MinuteTicks) = 0 /\ m.strength > 0)
        => r.strength = Min(4, m.strength) - 1

\* C26: the food and strength care-mistake timers count the minutes the need
\* has been unmet since it was last satisfied, so a timer is 0 while its need
\* is met and a spell that follows a refill, by food or by training, counts
\* from 0.  (Refuted: finish_training raises strength and leaves
\* care_strength_mistake_timer as it was.)
C26_SpellsRestart ==
  /\ pet.hunger > 0 => pet.care_food_mistake_timer = 0
  /\ pet.strength > 0 => pet.care_strength_mistake_timer = 0

\* C27: a won training leaves disturbance_penalty at max(0, previous - 2), a
\* lost one leaves it as it was, and it is never negative.  (Refuted: the
\* penalty is reduced only when it is above 2, so 1 and 2 stay.)
C27_TrainingEasesPenalty ==
  /\ pet.disturbance_penalty >= 0
  /\ \A won \in BOOLEAN :
       \A r \in {finish_training(pet, won, "day")} :
         r.disturbance_penalty
           = IF won THEN Max(0, pet.disturbance_penalty - 2) ELSE pet.disturbance_penalty

\* C28 as stated: level never exceeds MAX_LEVEL[stage]; at the maximum level
\* experience is 0; below it a call that crosses the next threshold raises
\* the level, keeps the remainder and leaves experience below the then-next
\* threshold.  (Refuted: one call raises the level once, so an award that
\* spans two thresholds leaves experience at or above the next one.)
C28_LevelUpBelowNext ==
  /\ pet.level <= MAX_LEVEL[pet.stage]
  /\ pet.level = MAX_LEVEL[pet.stage] => pet.experience = 0
  /\ \A xp \in 0..MaxXp :
       \A r \in {add_experience(pet, xp)} :
         (pet.level < MAX_LEVEL[pet.stage]
            /\ pet.experience + xp >= EXPERIENCE_LEVEL[pet.level + 1])
           => /\ r.level = pet.level + 1
              /\ r.level < MAX_LEVEL[r.stage]
                   => /\ r.experience = pet.experience + xp - EXPERIENCE_LEVEL[pet.level + 1]
                      /\ r.experience < EXPERIENCE_LEVEL[r.level + 1]

\* C28 amended: level never exceeds MAX_LEVEL[stage]; at the maximum level
\* experience is 0; below it a call that crosses the next threshold raises
\* the level by one and keeps the remainder, and a call that does not cross it
\* adds xp to experience.
C28_LevelUpKeepsRemainder ==
  /\ pet.level <= MAX_LEVEL[pet.stage]
  /\ pet.level = MAX_LEVEL[pet.stage] => pet.experience = 0
  /\ \A xp \in 0..MaxXp :
       \A r \in {add_experience(pet, xp)} :
         IF pet.level = MAX_LEVEL[pet.stage]
           THEN r.level = pet.level /\ r.experience = 0
         ELSE IF pet.experience + xp >= EXPERIENCE_LEVEL[pet.level + 1]
           THEN /\ r.level = pet.level + 1
                /\ r.experience = IF r.level = MAX_LEVEL[r.stage] THEN 0
                                  ELSE pet.experience + xp - EXPERIENCE_LEVEL[pet.level + 1]
         ELSE r.level = pet.level /\ r.experience = pet.experience + xp

\* one award took a ChampA from level 1 to level 2 with the remainder kept,
\* and a second one took it to level 3
C28_Witness ==
  /\ pet.name = "ChampA" /\ ops = 2
  /\ pet.level = 3 /\ pet.experience = 1

\* C29: every set_state call on a pet that is not dead leaves the animation
\* counter at 0, also a call without force whose new state is the current
\* one.  (Refuted: that call returns without touching the counters.)
C29_SetStateResetsAnimation ==
  \A st \in States, force \in BOOLEAN :
    pet.state # "dead" => set_state(pet, st, force, "day").animation_counter = 0

\* one day, in ticks: 24 * 60 * 60 * FRAME_RATE
DayTicks == 24 * 60 * MinuteTicks

\* C30: age goes up by 1 at each tick where age_timer reaches a whole number
\* of days and at no other tick, so age = floor(age_timer / one day of ticks).
\* (Refuted: the code divides by FRAME_RATE * 86.400, which is 86.4 seconds of
\* ticks.)
C30_AgeCountsDays == pet.age = pet.age_timer \div DayTicks

\* C31: a tick sickens a pet for the messes only when their number is above 8
\* times the number of live pets; at exactly 8 times or below it does not.
\* (Refuted: the test is >=, so the pet is sickened at exactly 8 per pet.)
C31_SickOnlyAboveEight ==
  [][pet'.injuries > pet.injuries
       => game'.poop_list > 8 * Cardinality(game'.pet_list)]_vars

C33_DisturbedSleepResumes ==
  /\ \A d \in {check_disturbed_sleep(pet, "day")} :
       IF pet.state = "nap"
         THEN /\ d.state = "idle"
              /\ d.sleep_disturbances = pet.sleep_disturbances + 1
              /\ d.disturbance_penalty = pet.disturbance_penalty + 2
              /\ d.back_to_sleep = pet.module.back_to_sleep_time
         ELSE d = pet
  /\ \A clk \in Clock, mv \in MovesOf(pet), long \in LongsOf(pet), roll \in RollsOf(pet) :
       \A r \in {update(St, mv, long, roll, clk)} :
         (InRoster /\ ~raised /\ ~r.exc /\ pet.back_to_sleep > 0)
           => IF (pet.timer + 1) % MinuteTicks = 0
                THEN /\ r.pet.back_to_sleep = pet.back_to_sleep - 1
                     /\ (r.pet.back_to_sleep = 0 /\ r.pet.state # "dead"
                           /\ should_sleep(r.pet, clk))
                          => r.pet.state = "nap"
                ELSE r.pet.back_to_sleep = pet.back_to_sleep

\* a pet disturbed in a module whose grace lasts two minutes has seen the
\* counter run out at its second minute tick, at night, and is asleep again
C33_Witness ==
  /\ pet.module.back_to_sleep_time = 2 /\ ops = 2
  /\ pet.sleep_disturbances = 1 /\ pet.disturbance_penalty = 2
  /\ pet.back_to_sleep = 0 /\ pet.state = "nap"
  /\ pet.timer = 2 * MinuteTicks

\* C34: set_state that takes a sleeping pet to another state while its
\* schedule calls for sleep arms back_to_sleep with the module's
\* back_to_sleep_time.  (Refuted: the test for a nap reads the state after the
\* new state has been assigned, so the counter is never armed.)
C34_InterruptedNapArms ==
  \A st \in States \ {"nap", "dead"}, force \in BOOLEAN, clk \in Clock :
    (pet.state = "nap" /\ should_sleep(pet, clk))
      => set_state(pet, st, force, clk).back_to_sleep = pet.module.back_to_sleep_time

\* C35: a tick whose timer is a multiple of FRAME_RATE // 2 takes an idle or
\* moving pet whose schedule calls for sleep to tired (stated for the ticks in
\* which nothing else moves the pet: no idle-movement decision, no minute
\* block).  (Refuted: the branch that sets tired comes after the branch that
\* handles idle and moving, so it is never taken.)
C35_SleepyPetTires ==
  \A long \in LongsOf(pet), roll \in RollsOf(pet) :
    \A r \in {update(St, "wait", long, roll, "night")} :
      (/\ InRoster /\ ~raised
       /\ pet.state \in {"idle", "moving"} /\ should_sleep(pet, "night")
       /\ (pet.timer + 1) % (FRAME_RATE \div 2) = 0
       /\ (pet.timer + 1) % MinuteTicks # 0)
        => r.pet.state = "tired"

\* an evolution path without one of its keys
Without(evo, key) == [k \in DOMAIN evo \ {key} |-> evo[k]]

\* C36: on a path that carries a win_ratio range, the range blocks the path
\* exactly when battles > 0 and floor(win * 100 / battles) lies outside it;
\* with zero battles it never does.
C36_WinRatioNeedsBattles ==
  \A i \in 1..Len(pet.evolve) :
    Has(pet.evolve[i], "win_ratio")
      => path_blocked(pet, pet.evolve[i])
           = \/ path_blocked(pet, Without(pet.evolve[i], "win_ratio"))
             \/ /\ pet.battles > 0
                /\ \/ (pet.win * 100) \div pet.battles < pet.evolve[i].win_ratio[1]
                   \/ (pet.win * 100) \div pet.battles > pet.evolve[i].win_ratio[2]

\* a ChampC that was fed and never fought has evolved at its first minute
\* tick along its win_ratio path
C36_Witness ==
  /\ pet.name = "Mega" /\ "Mega" \in game.digidex
  /\ pet.age_timer = MinuteTicks /\ pet.timer = 0 /\ ops = 2

\* C37: the tick in which a pet evolves leaves its hunger and strength as they
\* were.  (Refuted: the evolution puts the timer back to 0, which is a
\* multiple of every interval, so update_needs takes 1 from both in the same
\* tick.)
C37_EvolutionTickKeepsNeeds ==
  [][(pet'.name # pet.name /\ ops' = ops)
       => pet'.hunger = pet.hunger /\ pet'.strength = pet.strength]_vars

C39_NoStaleData ==
  \A page_number \in Pages :
    draw_page(window, page_number, pet).surface[1].page = draw_methods(page_number, pet)

InRange(i, n) == IF n = 0 THEN i = 0 ELSE i \in 0..(n - 1)

\* C40: after any sequence of inputs handle_event has raised no exception and
\* every cursor of the settings menu indexes an entry of its list (0 when the
\* list is empty).
C40_CursorsInRange ==
  /\ ~raised
  /\ menu.mode \in {"menu", "settings"} => InRange(menu.selected_index, Len(options))
  /\ InRange(menu.current_bg_index, Len(menu.unlocked_backgrounds))
  /\ InRange(menu.current_unlock_module_index, Len(menu.unlockables_data))
  /\ Len(menu.unlockables_data) > 0
       => InRange(menu.current_unlock_item_index,
                  menu.unlockables_data[menu.current_unlock_module_index + 1])

====
